---- MODULE Spec2Model ----
(***************************************************************************)
(* Model of the Feima Copilot extension core:                              *)
(*   - the chat pipeline: FeimaChatEndpoint._parseSSEStream feeding the    *)
(*     FeimaLanguageModelWrapper finishCallback (specification ChatSpec);  *)
(*   - the authentication service FeimaAuthenticationService with its URI  *)
(*     callback router (specification Spec), and the refresh decision of   *)
(*     getSessions on its own (specification RefreshSpec);                 *)
(*   - FeimaChatEndpoint.makeChatRequest from validation to the response   *)
(*     (specification RequestSpec), the same with a host that cancels the  *)
(*     request (specification CancelSpec), and validateRequest on its own  *)
(*     (specification ValidateSpec);                                       *)
(*   - the model catalog ModelCatalogService with the provider adapter     *)
(*     FeimaLanguageModelProvider (specification CatalogSpec), and one     *)
(*     catalog call under fair scheduling (specification TimeoutSpec).     *)
(***************************************************************************)
EXTENDS Integers, Sequences, FiniteSets, TLC

VARIABLES
    \* ---- chat request (one request) ----
    stream,               \* the SSE response body, as its sequence of lines
    tailComplete,         \* whether the last line of the body ends with "\n"
    linesDone,            \* number of lines of the body already handled
    chunkLeft,            \* complete lines of the current chunk still to handle
    toolCallsMap,         \* Map<number, {id,name,arguments}> in insertion order
    fullText,             \* the endpoint's full-text accumulator (pieces)
    reported,             \* what progress.report received, in order
    reportedToolCallIds,  \* the wrapper's Set of reported tool-call ids
    ssePc,                \* position of _parseSSEStream
    isCancellationRequested,
    chatResult,           \* outcome of makeChatRequest as seen by the wrapper
    handedToolCalls,      \* the toolCalls lists the callback was given, in order
    \* ---- authentication service ----
    secrets,              \* the host's secret store: key -> blob
    cachedSessions,       \* _cachedSessions (a list of 0 or 1 Session)
    activeFlows,          \* _activeFlows: nonce -> IActiveFlow
    pendingCallbacks,     \* the URI router's pending callbacks
    events,               \* what _onDidChangeSessions.fire was given, in order
    calls,                \* the calls of the service's async methods
    startupLoad,          \* the constructor's _loadStoredSessions() call
    idp,                  \* number of token responses the IdP has issued
    nextNonce,            \* number of nonces generated so far
    lastEnded,            \* what the most recently completed call did
    now,                  \* Date.now()
    \* ---- makeChatRequest (one call) ----
    request,              \* the arguments: messages, tools, toolMode
    reqPc,                \* position of makeChatRequest
    reqOutcome,           \* how the call ended: a ChatResponse or an exception
    fetched,              \* what fetch(apiUrl, ...) was given, in order
    authToken,            \* the token makeChatRequest got from getAuthToken()
    tokenAnswers,         \* what getSessions resolved with for this call, in order
    response,             \* what fetch resolved with
    hostOutcome,          \* how the wrapper's provideLanguageModelResponse ended
    \* ---- model catalog and provider ----
    chatModels,           \* _chatModels
    completionModels,     \* _completionModels
    embeddingModels,      \* _embeddingModels
    lastFetch,            \* _lastFetch
    catCalls,             \* the calls of the catalog's and the provider's async methods
    modelChanges,         \* what made _onDidChangeModels fire, in order
    hostChanges,          \* number of onDidChangeLanguageModelChatInformation events
    catalogFetches,       \* the GET requests sent to the models endpoint, in order
    lastResponse,         \* the most recent response received from the models endpoint
    endpointCache,        \* keys of the provider's _endpointCache
    delegated             \* model ids the wrapper was called for, in order

chatVars == <<stream, tailComplete, linesDone, chunkLeft, toolCallsMap, fullText,
              reported, reportedToolCallIds, ssePc, isCancellationRequested,
              chatResult, handedToolCalls>>

authVars == <<secrets, cachedSessions, activeFlows, pendingCallbacks, events, calls,
              startupLoad, idp, nextNonce, lastEnded, now>>

reqVars == <<request, reqPc, reqOutcome, fetched, authToken, tokenAnswers,
             response, hostOutcome>>

catVars == <<chatModels, completionModels, embeddingModels, lastFetch, catCalls,
             modelChanges, hostChanges, catalogFetches, lastResponse, endpointCache,
             delegated>>

vars == <<chatVars, authVars, reqVars, catVars>>

\* what the steps of one component leave alone
nonChatVars == <<authVars, reqVars, catVars>>
nonAuthVars == <<chatVars, reqVars, catVars>>
nonReqVars == <<chatVars, authVars, catVars>>
nonChatReqVars == <<authVars, catVars>>
nonCatVars == <<chatVars, reqVars>>

-----------------------------------------------------------------------------
(* Bounds of the chat model *)

MaxLines == 4

-----------------------------------------------------------------------------
(* SSE lines.  A data line carries choices[0].delta; `content` is an option *)
(* (<<>> = absent, <<c>> = present with string c), `tool_calls` a list of   *)
(* fragments, `finish` whether choices[0].finish_reason is present.         *)
(* Argument strings are sequences of one-character tokens.                   *)

Frag(i, id, name, args) == [index |-> i, id |-> id, name |-> name, arguments |-> args]

DataLine(content, frags, finish) ==
    [kind |-> "data", content |-> content, tool_calls |-> frags, finish |-> finish]

DoneLine == [kind |-> "done", content |-> <<>>, tool_calls |-> <<>>, finish |-> FALSE]
SkipLine == [kind |-> "skip", content |-> <<>>, tool_calls |-> <<>>, finish |-> FALSE]
BadLine  == [kind |-> "bad", content |-> <<>>, tool_calls |-> <<>>, finish |-> FALSE]

SseLines ==
    { DataLine(<<"a">>, <<>>, FALSE),
      DataLine(<<"">>, <<>>, FALSE),
      DataLine(<<>>, <<Frag(0, "tc_1", "search", <<"{">>),
                       Frag(1, "tc_2", "lookup", <<"{", "}">>),
                       Frag(2, "tc_3", "", <<>>)>>, FALSE),
      DataLine(<<>>, <<Frag(0, "", "", <<"}">>)>>, FALSE),
      DataLine(<<"b">>, <<>>, TRUE),
      DoneLine, SkipLine, BadLine }

Streams == UNION { [1..n -> SseLines] : n \in 0..MaxLines }

-----------------------------------------------------------------------------
(* The wrapper: finishCallback *)

RECURSIVE StripSpaces(_)
StripSpaces(s) ==
    IF s = <<>> THEN <<>>
    ELSE IF Head(s) = " " THEN StripSpaces(Tail(s))
    ELSE <<Head(s)>> \o StripSpaces(Tail(s))

RECURSIVE TrimLeft(_)
TrimLeft(s) == IF s # <<>> /\ Head(s) = " " THEN TrimLeft(Tail(s)) ELSE s

\* JSON.parse over the token alphabet {"{", "}", "1", " "}: the type of the
\* parsed value, or "SyntaxError".
JsonParse(s) ==
    LET t == StripSpaces(s) IN
    IF t = <<"{", "}">> THEN "object"
    ELSE IF t = <<"1">> /\ TrimLeft(s) = s THEN "number"
    ELSE "SyntaxError"

\* lines 84-102 of the wrapper: TRUE when the call's arguments pass.
ArgumentsAccepted(arguments) ==
    LET argsStr == IF arguments = <<>> THEN <<"{", "}">> ELSE arguments
        trimmedArgs == TrimLeft(argsStr)
    IN  /\ trimmedArgs # <<>>
        /\ Head(trimmedArgs) \in {"{", "["}
        /\ JsonParse(argsStr) = "object"

TextPart(v) == [type |-> "text", value |-> v, id |-> "", name |-> ""]
ToolCallPart(id, name) == [type |-> "toolCall", value |-> "", id |-> id, name |-> name]

\* Mutant of IsDuplicate: the wrapper without its duplicate guard.
IsDuplicate_NoGuard(id, ids) == FALSE

\* The wrapper's duplicate guard (reportedToolCallIds.has(call.id)).
IsDuplicate(id, ids) == id \in ids

\* The for-loop over delta.toolCalls; `acc` = [reported, ids, threw].
RECURSIVE ReportToolCalls(_, _)
ReportToolCalls(toolCalls, acc) ==
    IF toolCalls = <<>> THEN acc
    ELSE LET call == Head(toolCalls) IN
         IF call.id = "" \/ call.name = "" THEN ReportToolCalls(Tail(toolCalls), acc)
         ELSE IF IsDuplicate(call.id, acc.ids) THEN ReportToolCalls(Tail(toolCalls), acc)
         ELSE IF ~ArgumentsAccepted(call.arguments) THEN [acc EXCEPT !.threw = TRUE]
         ELSE ReportToolCalls(Tail(toolCalls),
                 [acc EXCEPT !.reported = Append(@, ToolCallPart(call.id, call.name)),
                             !.ids = @ \cup {call.id}])

\* Mutant of FinishCallback: text is reported only when the delta has no tool calls.
FinishCallback_TextOrCalls(_fullText, delta, rep, ids) ==
    LET afterText == IF delta.text # <<>> /\ delta.text[1] # "" /\ delta.toolCalls = <<>>
                     THEN Append(rep, TextPart(delta.text[1])) ELSE rep
    IN  ReportToolCalls(delta.toolCalls, [reported |-> afterText, ids |-> ids, threw |-> FALSE])

\* finishCallback(_fullText, delta): delta = [text (option), toolCalls (list)].
FinishCallback(_fullText, delta, rep, ids) ==
    LET afterText == IF delta.text # <<>> /\ delta.text[1] # ""
                     THEN Append(rep, TextPart(delta.text[1])) ELSE rep
    IN  ReportToolCalls(delta.toolCalls, [reported |-> afterText, ids |-> ids, threw |-> FALSE])

-----------------------------------------------------------------------------
(* The endpoint: _parseSSEStream *)

RECURSIVE IndexOfEntry(_, _)
\* position in the map of the entry for tool-call index i, 0 if none
IndexOfEntry(m, i) ==
    IF m = <<>> THEN 0
    ELSE IF m[Len(m)].index = i THEN Len(m)
    ELSE IndexOfEntry(SubSeq(m, 1, Len(m) - 1), i)

\* lines 714-731: fold the fragments of one delta into the map
RECURSIVE Accumulate(_, _)
Accumulate(m, frags) ==
    IF frags = <<>> THEN m
    ELSE LET f == Head(frags)
             k == IndexOfEntry(m, f.index)
             m2 == IF k > 0
                   THEN [m EXCEPT ![k].arguments = @ \o f.arguments]
                   ELSE Append(m, f)
         IN Accumulate(m2, Tail(frags))

\* Array.from(toolCallsMap.values()).filter(call => call.id && call.name)
CompletedCalls(m) == SelectSeq(m, LAMBDA c : c.id # "" /\ c.name # "")

\* one callback(fullText, {toolCalls: completedCalls}): where in the parser it
\* was made, the tool-call indexes of the calls given, and whether it threw
Handed(at, completedCalls, threw) ==
    [at |-> at, indexes |-> { completedCalls[k].index : k \in DOMAIN completedCalls },
     threw |-> threw]

\* number of lines of the body that are ever split off the buffer
Avail == IF tailComplete THEN Len(stream) ELSE IF Len(stream) = 0 THEN 0 ELSE Len(stream) - 1

CurLine == stream[linesDone + 1]

\* after one line of the for-loop: next line of the chunk or back to read()
NextLine ==
    /\ linesDone' = linesDone + 1
    /\ chunkLeft' = chunkLeft - 1
    /\ ssePc' = IF chunkLeft = 1 THEN "read" ELSE "lines"

\* no makeChatRequest call has been made
ReqQuiescent ==
    /\ request = <<>>
    /\ reqPc = "idle"
    /\ reqOutcome = <<>>
    /\ fetched = <<>>
    /\ authToken = -1        \* not assigned yet
    /\ tokenAnswers = <<>>
    /\ response = <<>>
    /\ hostOutcome = <<>>

\* the catalog and the provider before any use
CatQuiescent ==
    /\ chatModels = <<>>
    /\ completionModels = <<>>
    /\ embeddingModels = <<>>
    /\ lastFetch = 0
    /\ catCalls = <<>>
    /\ modelChanges = <<>>
    /\ hostChanges = 0
    /\ catalogFetches = <<>>
    /\ lastResponse = <<>>
    /\ endpointCache = {}
    /\ delegated = <<>>

\* the authentication service at rest, for the chat specification
AuthQuiescent ==
    /\ secrets = <<>>
    /\ cachedSessions = <<>>
    /\ activeFlows = <<>>
    /\ pendingCallbacks = {}
    /\ events = <<>>
    /\ calls = <<>>
    /\ startupLoad = <<>>
    /\ idp = 0
    /\ nextNonce = 0
    /\ lastEnded = <<>>
    /\ now = 0

ChatInit ==
    /\ AuthQuiescent
    /\ ReqQuiescent
    /\ CatQuiescent
    /\ stream \in Streams
    /\ tailComplete \in BOOLEAN
    /\ linesDone = 0
    /\ chunkLeft = 0
    /\ toolCallsMap = <<>>
    /\ fullText = <<>>
    /\ reported = <<>>
    /\ reportedToolCallIds = {}
    /\ ssePc = "read"
    /\ isCancellationRequested = FALSE
    /\ chatResult = "pending"
    /\ handedToolCalls = <<>>

\* reader.read() returns a chunk completing k further lines
ReadChunk ==
    /\ ssePc = "read"
    /\ ~isCancellationRequested
    /\ \E k \in 1..(Avail - linesDone) :
          /\ chunkLeft' = k
          /\ ssePc' = "lines"
    /\ UNCHANGED <<stream, tailComplete, linesDone, toolCallsMap, fullText, reported,
                   reportedToolCallIds, isCancellationRequested, chatResult>>
    /\ UNCHANGED handedToolCalls
    /\ UNCHANGED nonChatVars

\* reader.read() returns done, or the loop condition sees the cancellation
ReadEnd ==
    /\ ssePc = "read"
    /\ isCancellationRequested \/ linesDone = Avail
    /\ ssePc' = "flush"
    /\ UNCHANGED <<stream, tailComplete, linesDone, chunkLeft, toolCallsMap, fullText,
                   reported, reportedToolCallIds, isCancellationRequested, chatResult>>
    /\ UNCHANGED handedToolCalls
    /\ UNCHANGED nonChatVars

\* blank line, comment, or a line that is not a data line
HandleSkipLine ==
    /\ ssePc = "lines"
    /\ CurLine.kind = "skip"
    /\ NextLine
    /\ UNCHANGED <<stream, tailComplete, toolCallsMap, fullText, reported,
                   reportedToolCallIds, isCancellationRequested, chatResult>>
    /\ UNCHANGED handedToolCalls
    /\ UNCHANGED nonChatVars

\* data line whose JSON does not parse or has no choices[0]
HandleBadLine ==
    /\ ssePc = "lines"
    /\ CurLine.kind = "bad"
    /\ NextLine
    /\ UNCHANGED <<stream, tailComplete, toolCallsMap, fullText, reported,
                   reportedToolCallIds, isCancellationRequested, chatResult>>
    /\ UNCHANGED handedToolCalls
    /\ UNCHANGED nonChatVars

\* data: {...choices[0]...}
HandleDataLine ==
    /\ ssePc = "lines"
    /\ CurLine.kind = "data"
    /\ LET line == CurLine
           hasText == line.content # <<>> /\ line.content[1] # ""
           map2 == Accumulate(toolCallsMap, line.tool_calls)
           completed == CompletedCalls(map2)
           completedCalls == IF line.finish /\ map2 # <<>> THEN completed ELSE <<>>
           delta == [text |-> IF hasText THEN line.content ELSE <<>>, toolCalls |-> completedCalls]
           fullText2 == IF hasText THEN Append(fullText, line.content[1]) ELSE fullText
           r == FinishCallback(fullText2, delta, reported, reportedToolCallIds)
       IN  /\ fullText' = fullText2
           /\ toolCallsMap' = map2
           /\ IF hasText \/ completedCalls # <<>>
              THEN /\ reported' = r.reported
                   /\ reportedToolCallIds' = r.ids
              ELSE UNCHANGED <<reported, reportedToolCallIds>>
           /\ handedToolCalls' = IF completedCalls # <<>>
                                    THEN Append(handedToolCalls, Handed("finish_reason", completedCalls, r.threw))
                                    ELSE handedToolCalls
    /\ NextLine
    /\ UNCHANGED <<stream, tailComplete, isCancellationRequested, chatResult>>
    /\ UNCHANGED nonChatVars

\* data: [DONE]
HandleDoneLine ==
    /\ ssePc = "lines"
    /\ CurLine.kind = "done"
    /\ LET completed == CompletedCalls(toolCallsMap)
           r == FinishCallback(fullText, [text |-> <<>>, toolCalls |-> completed],
                               reported, reportedToolCallIds)
       IN  IF completed # <<>>
           THEN /\ reported' = r.reported
                /\ reportedToolCallIds' = r.ids
                /\ IF r.threw
                   THEN /\ ssePc' = "released"
                        /\ chatResult' = "error"
                        /\ UNCHANGED <<linesDone, chunkLeft>>
                   ELSE /\ NextLine
                        /\ UNCHANGED chatResult
                /\ handedToolCalls' = Append(handedToolCalls, Handed("[DONE]", completed, r.threw))
           ELSE /\ NextLine
                /\ UNCHANGED <<reported, reportedToolCallIds, chatResult, handedToolCalls>>
    /\ UNCHANGED <<stream, tailComplete, toolCallsMap, fullText, isCancellationRequested>>
    /\ UNCHANGED nonChatVars

\* Mutant of StreamEnd: the lock is released without the emission after the loop.
StreamEnd_NoEmit ==
    /\ ssePc = "flush"
    /\ chatResult' = "success"
    /\ ssePc' = "released"
    /\ UNCHANGED <<stream, tailComplete, linesDone, chunkLeft, toolCallsMap, fullText,
                   reported, reportedToolCallIds, isCancellationRequested>>
    /\ UNCHANGED handedToolCalls
    /\ UNCHANGED nonChatVars

\* lines 761-773: emission after the loop, then reader.releaseLock()
StreamEnd ==
    /\ ssePc = "flush"
    /\ LET completed == CompletedCalls(toolCallsMap)
           r == FinishCallback(fullText, [text |-> <<>>, toolCalls |-> completed],
                               reported, reportedToolCallIds)
       IN  IF completed # <<>>
           THEN /\ reported' = r.reported
                /\ reportedToolCallIds' = r.ids
                /\ chatResult' = IF r.threw THEN "error" ELSE "success"
                /\ handedToolCalls' = Append(handedToolCalls, Handed("stream end", completed, r.threw))
           ELSE /\ chatResult' = "success"
                /\ UNCHANGED <<reported, reportedToolCallIds, handedToolCalls>>
    /\ ssePc' = "released"
    /\ UNCHANGED <<stream, tailComplete, linesDone, chunkLeft, toolCallsMap, fullText,
                   isCancellationRequested>>
    /\ UNCHANGED nonChatVars

\* the host trips the request's cancellation token
CancelRequest ==
    /\ ssePc \in {"read", "lines"}
    /\ ~isCancellationRequested
    /\ isCancellationRequested' = TRUE
    /\ UNCHANGED <<stream, tailComplete, linesDone, chunkLeft, toolCallsMap, fullText,
                   reported, reportedToolCallIds, ssePc, chatResult>>
    /\ UNCHANGED handedToolCalls
    /\ UNCHANGED nonChatVars

ChatNext ==
    \/ ReadChunk
    \/ ReadEnd
    \/ HandleSkipLine
    \/ HandleBadLine
    \/ HandleDataLine
    \/ HandleDoneLine
    \/ StreamEnd
    \/ CancelRequest

ChatSpec == ChatInit /\ [][ChatNext]_vars

-----------------------------------------------------------------------------
(* Authentication service: data *)

\* Bounds of the authentication model
MaxCalls == 2
MaxTicks == 1

Calls == 1..MaxCalls

\* the clock advances in steps of 400 s
TickMs == 400 * 1000
FiveMinutes == 5 * 60 * 1000
CallbackTimeoutMs == 5 * 60 * 1000

SecretsKey == "feimaAuth.tokens"
RedirectUri == "vscode://feima.ext/oauth/callback"

\* an optional numeric field that is not there (expires_in?: number)
Absent == -1

\* expires_in values the IdP answers with (seconds): none, one minute, five minutes
ExpiresInChoices == {Absent, 60, 300}
\* authorization codes a redirect may carry
Codes == {"abc", "xyz"}

\* ITokenResponse; refresh_token 0 stands for "absent", expires_in is Absent or a number
TokenResponse(at, rt, exp) == [access_token |-> at, refresh_token |-> rt, expires_in |-> exp]

\* what secrets.get / JSON.parse yield: nothing, an unparsable blob, or IStoredTokenData
NoStored ==
    [kind |-> "none", tokenResponse |-> TokenResponse(0, 0, 0), issuedAt |-> 0,
     sessionId |-> 0, accountId |-> ""]
CorruptBlob == [NoStored EXCEPT !.kind = "corrupt"]
StoredData(tokenResponse, issuedAt, sessionId, accountId) ==
    [kind |-> "session", tokenResponse |-> tokenResponse, issuedAt |-> issuedAt,
     sessionId |-> sessionId, accountId |-> accountId]

\* vscode.AuthenticationSession {id, accessToken, account, scopes: []}
Session(id, accessToken, accountId) ==
    [id |-> id, accessToken |-> accessToken, accountId |-> accountId]

\* the Session built from stored data (lines 195-203, 317-325, 358-366)
SessionOf(stored) == Session(stored.sessionId, stored.tokenResponse.access_token, stored.accountId)

EmptyStore == [k \in {} |-> NoStored]
Put(store, key, blob) == [k \in DOMAIN store \cup {key} |-> IF k = key THEN blob ELSE store[k]]
Delete(store, key) == [k \in DOMAIN store \ {key} |-> store[k]]

\* stores the extension may start with: empty, an unparsable blob, a session of an
\* earlier run with or without a refresh token
InitialStores ==
    { EmptyStore,
      Put(EmptyStore, SecretsKey, CorruptBlob),
      Put(EmptyStore, SecretsKey, StoredData(TokenResponse(100, 100, 300), 0, -1, "u0")),
      Put(EmptyStore, SecretsKey, StoredData(TokenResponse(100, 0, 300), 0, -1, "u0")) }

\* Mutant of SaveToken: the session is written under a key of its own.
SaveToken_OwnKey(store, tokenResponse, accountId, sessionId, time) ==
    Put(store, "feimaAuth.session", StoredData(tokenResponse, time, sessionId, accountId))

\* Mutant of SaveToken: a blob already under the key is left as it is.
SaveToken_IfAbsent(store, tokenResponse, accountId, sessionId, time) ==
    IF SecretsKey \in DOMAIN store THEN store
    ELSE Put(store, SecretsKey, StoredData(tokenResponse, time, sessionId, accountId))

\* _saveToken: the store after secrets.store(_secretsKey, JSON.stringify(data))
SaveToken(store, tokenResponse, accountId, sessionId, time) ==
    Put(store, SecretsKey, StoredData(tokenResponse, time, sessionId, accountId))

\* Mutant of ClearStoredToken: the key stays.
ClearStoredToken_Noop(store) == store

\* _clearStoredToken
ClearStoredToken(store) == Delete(store, SecretsKey)

\* _loadStoredToken: undefined when the key is absent or the blob does not parse
LoadStoredToken(store) ==
    IF SecretsKey \notin DOMAIN store THEN NoStored
    ELSE IF store[SecretsKey].kind = "corrupt" THEN NoStored
    ELSE store[SecretsKey]

\* OAuth2Service.shouldRefreshToken, with Date.now() = time
ShouldRefreshToken(tokenResponse, issuedAt, time) ==
    IF tokenResponse.expires_in = Absent \/ tokenResponse.expires_in = 0 THEN FALSE
    ELSE LET expiresAt == issuedAt + tokenResponse.expires_in * 1000
             timeUntilExpiry == expiresAt - time
         IN timeUntilExpiry < FiveMinutes

\* Mutant of MergeRefreshToken: the IdP's answer is stored as it came.
MergeRefreshToken_AsReturned(refreshed, stored) == refreshed

\* lines 170-173: keep the stored refresh token when the answer carries none
MergeRefreshToken(refreshed, stored) ==
    IF refreshed.refresh_token = 0
    THEN [refreshed EXCEPT !.refresh_token = stored.tokenResponse.refresh_token]
    ELSE refreshed

\* the promise returned by registerPendingCallback
PendingPromise == [state |-> "pending", code |-> "", uriState |-> 0, error |-> ""]
ResolvedPromise(code, uriState) ==
    [state |-> "resolved", code |-> code, uriState |-> uriState, error |-> ""]
RejectedPromise(error, uriState) ==
    [state |-> "rejected", code |-> "", uriState |-> uriState, error |-> error]

NoFlow == [nonce |-> 0, codeVerifier |-> 0, redirectUri |-> ""]
NoExchange == [code |-> "", codeVerifier |-> 0, redirectUri |-> ""]
NoSessions == <<>>

\* summary of a completed call
Ended(op, outcome, result, time, overlapped) ==
    [op |-> op, outcome |-> outcome, result |-> result, endedAt |-> time,
     overlapped |-> overlapped]
NothingEnded == Ended("none", "", NoSessions, 0, FALSE)

\* a call of one of the service's async methods, with its local variables
IdleCall ==
    [op |-> "none", pc |-> "idle", arg |-> 0, stored |-> NoStored,
     nonce |-> 0, codeVerifier |-> 0, promise |-> PendingPromise, exchange |-> NoExchange,
     refreshed |-> TokenResponse(0, 0, 0), answer |-> TokenResponse(0, 0, 0),
     saved |-> NoStored, result |-> NoSessions, outcome |-> "",
     token |-> 0, startedAt |-> 0, endedAt |-> 0, eventsBefore |-> 0,
     overlapped |-> FALSE, after |-> NothingEnded]

InFlight(c) == calls[c].pc \notin {"idle", "done"}

\* the PKCE verifier generated together with the k-th nonce
GenerateCodeVerifier(k) == 1000 + k

AddedEvent(session) == [kind |-> "added", session |-> session]
RemovedEvent(session) == [kind |-> "removed", session |-> session]

ChatQuiescent ==
    /\ stream = <<>>
    /\ tailComplete = TRUE
    /\ linesDone = 0
    /\ chunkLeft = 0
    /\ toolCallsMap = <<>>
    /\ fullText = <<>>
    /\ reported = <<>>
    /\ reportedToolCallIds = {}
    /\ ssePc = "released"
    /\ isCancellationRequested = FALSE
    /\ chatResult = "success"
    /\ handedToolCalls = <<>>

\* state after the constructor: _loadStoredSessions() has called secrets.get
AuthInit ==
    /\ secrets \in InitialStores
    /\ cachedSessions = <<>>
    /\ activeFlows = [n \in {} |-> NoFlow]
    /\ pendingCallbacks = {}
    /\ events = <<>>
    /\ calls = [c \in Calls |-> IdleCall]
    /\ startupLoad = [pc |-> "loading", stored |-> LoadStoredToken(secrets)]
    /\ idp = 0
    /\ nextNonce = 0
    /\ lastEnded = NothingEnded
    /\ now = 0

Init == AuthInit /\ ChatQuiescent /\ ReqQuiescent /\ CatQuiescent

-----------------------------------------------------------------------------
(* Authentication service: calls *)

\* call c begins: method `op` runs up to its first await
Begin(c, rec) ==
    /\ calls[c].pc = "idle"
    /\ \A d \in Calls : d < c => calls[d].pc # "idle"
    /\ LET alone == startupLoad.pc = "done" /\ \A d \in Calls : ~InFlight(d)
       IN calls' = [d \in Calls |->
                      IF d = c
                      THEN [rec EXCEPT !.startedAt = now, !.overlapped = ~alone,
                                       !.eventsBefore = Len(events),
                                       !.after = IF alone THEN lastEnded ELSE NothingEnded]
                      ELSE IF InFlight(d) THEN [calls[d] EXCEPT !.overlapped = TRUE]
                      ELSE calls[d]]
    /\ lastEnded' = NothingEnded

\* call c moves on to its next await
Continue(c, rec) ==
    /\ calls' = [calls EXCEPT ![c] = rec]
    /\ UNCHANGED lastEnded

\* call c returns or throws
Finish(c, rec) ==
    /\ calls' = [calls EXCEPT ![c] = [rec EXCEPT !.pc = "done", !.endedAt = now]]
    /\ lastEnded' = Ended(rec.op, rec.outcome, rec.result, now, rec.overlapped)

\* constructor, lines 355-368: the continuation of _loadStoredSessions
LoadStoredSessions ==
    /\ startupLoad.pc = "loading"
    /\ startupLoad' = [startupLoad EXCEPT !.pc = "done"]
    /\ cachedSessions' = IF startupLoad.stored.kind = "session"
                         THEN <<SessionOf(startupLoad.stored)>>
                         ELSE cachedSessions
    /\ calls' = [d \in Calls |-> IF InFlight(d) THEN [calls[d] EXCEPT !.overlapped = TRUE]
                                 ELSE calls[d]]
    /\ UNCHANGED <<secrets, activeFlows, pendingCallbacks, events, idp, nextNonce,
                   lastEnded, now>>
    /\ UNCHANGED nonAuthVars

\* getSessions() / getToken() called: _loadStoredToken reads the secret store
StartGetSessions(c, op) ==
    /\ Begin(c, [IdleCall EXCEPT !.op = op, !.pc = "gs_loading",
                                 !.stored = LoadStoredToken(secrets)])
    /\ UNCHANGED <<secrets, cachedSessions, activeFlows, pendingCallbacks, events,
                   startupLoad, idp, nextNonce, now>>
    /\ UNCHANGED nonAuthVars

\* getToken(), lines 123-129: the token handed to the caller (0 = undefined)
TokenOf(op, sessions) ==
    IF op = "getToken" /\ sessions # <<>> THEN sessions[1].accessToken ELSE 0

\* getSessions lines 156-162 and 193-206: after the store was read
GetSessionsLoaded(c) ==
    /\ calls[c].pc = "gs_loading"
    /\ LET me == calls[c]
           stored == me.stored
       IN  IF stored.kind = "none"
           THEN /\ cachedSessions' = <<>>
                /\ Finish(c, [me EXCEPT !.result = <<>>, !.outcome = "noSession"])
           ELSE IF /\ ShouldRefreshToken(stored.tokenResponse, stored.issuedAt, now)
                   /\ stored.tokenResponse.refresh_token # 0
           THEN /\ Continue(c, [me EXCEPT !.pc = "gs_refreshing"])
                /\ UNCHANGED cachedSessions
           ELSE /\ cachedSessions' = <<SessionOf(stored)>>
                /\ Finish(c, [me EXCEPT !.result = <<SessionOf(stored)>>,
                                        !.outcome = "valid",
                                        !.token = TokenOf(me.op, <<SessionOf(stored)>>)])
    /\ UNCHANGED <<secrets, activeFlows, pendingCallbacks, events, startupLoad, idp,
                   nextNonce, now>>
    /\ UNCHANGED nonAuthVars

\* getSessions lines 165-175: the IdP answers the refresh; the token is saved
GetSessionsRefreshed(c) ==
    /\ calls[c].pc = "gs_refreshing"
    /\ \E rt \in {0, idp + 1}, exp \in ExpiresInChoices :
         LET me == calls[c]
             answer == TokenResponse(idp + 1, rt, exp)
             refreshed == MergeRefreshToken(answer, me.stored)
         IN  /\ secrets' = SaveToken(secrets, refreshed, me.stored.accountId,
                                     me.stored.sessionId, now)
             /\ Continue(c, [me EXCEPT !.pc = "gs_saved", !.answer = answer,
                                       !.refreshed = refreshed,
                                       !.saved = StoredData(refreshed, now, me.stored.sessionId,
                                                            me.stored.accountId)])
    /\ idp' = idp + 1
    /\ UNCHANGED <<cachedSessions, activeFlows, pendingCallbacks, events, startupLoad,
                   nextNonce, now>>
    /\ UNCHANGED nonAuthVars

\* Mutant of GetSessionsSaved: the session is rebuilt from the token read before the
\* refresh.
GetSessionsSaved_StaleSession(c) ==
    /\ calls[c].pc = "gs_saved"
    /\ LET me == calls[c]
           session == SessionOf(me.stored)
       IN  /\ cachedSessions' = <<session>>
           /\ Finish(c, [me EXCEPT !.result = <<session>>, !.outcome = "refreshed",
                                   !.token = TokenOf(me.op, <<session>>)])
    /\ UNCHANGED <<secrets, activeFlows, pendingCallbacks, events, startupLoad, idp,
                   nextNonce, now>>
    /\ UNCHANGED nonAuthVars

\* getSessions lines 177-186 and 206: after the save
GetSessionsSaved(c) ==
    /\ calls[c].pc = "gs_saved"
    /\ LET me == calls[c]
           session == Session(me.stored.sessionId, me.refreshed.access_token,
                              me.stored.accountId)
       IN  /\ cachedSessions' = <<session>>
           /\ Finish(c, [me EXCEPT !.result = <<session>>, !.outcome = "refreshed",
                                   !.token = TokenOf(me.op, <<session>>)])
    /\ UNCHANGED <<secrets, activeFlows, pendingCallbacks, events, startupLoad, idp,
                   nextNonce, now>>
    /\ UNCHANGED nonAuthVars

\* Mutant of GetSessionsRefreshFailed: the failed refresh leaves the stored token.
GetSessionsRefreshFailed_KeepsToken(c) ==
    /\ calls[c].pc = "gs_refreshing"
    /\ Continue(c, [calls[c] EXCEPT !.pc = "gs_clearing"])
    /\ UNCHANGED <<secrets, cachedSessions, activeFlows, pendingCallbacks, events,
                   startupLoad, idp, nextNonce, now>>
    /\ UNCHANGED nonAuthVars

\* getSessions lines 187-189: the refresh failed; the stored token is cleared
GetSessionsRefreshFailed(c) ==
    /\ calls[c].pc = "gs_refreshing"
    /\ secrets' = ClearStoredToken(secrets)
    /\ Continue(c, [calls[c] EXCEPT !.pc = "gs_clearing"])
    /\ UNCHANGED <<cachedSessions, activeFlows, pendingCallbacks, events, startupLoad,
                   idp, nextNonce, now>>
    /\ UNCHANGED nonAuthVars

\* getSessions lines 190-191: after the clear
GetSessionsCleared(c) ==
    /\ calls[c].pc = "gs_clearing"
    /\ cachedSessions' = <<>>
    /\ Finish(c, [calls[c] EXCEPT !.result = <<>>, !.outcome = "refreshFailed"])
    /\ UNCHANGED <<secrets, activeFlows, pendingCallbacks, events, startupLoad, idp,
                   nextNonce, now>>
    /\ UNCHANGED nonAuthVars

\* removeSession(sessionId) called: _loadStoredToken reads the secret store
StartRemoveSession(c, sessionId) ==
    /\ Begin(c, [IdleCall EXCEPT !.op = "removeSession", !.pc = "rs_loading",
                                 !.arg = sessionId, !.stored = LoadStoredToken(secrets)])
    /\ UNCHANGED <<secrets, cachedSessions, activeFlows, pendingCallbacks, events,
                   startupLoad, idp, nextNonce, now>>
    /\ UNCHANGED nonAuthVars

\* removeSession lines 312-328: after the store was read
RemoveSessionLoaded(c) ==
    /\ calls[c].pc = "rs_loading"
    /\ LET me == calls[c]
       IN  IF me.stored.kind = "none" \/ me.stored.sessionId # me.arg
           THEN /\ Finish(c, [me EXCEPT !.outcome = "noop"])
                /\ UNCHANGED secrets
           ELSE /\ secrets' = ClearStoredToken(secrets)
                /\ Continue(c, [me EXCEPT !.pc = "rs_clearing"])
    /\ UNCHANGED <<cachedSessions, activeFlows, pendingCallbacks, events, startupLoad,
                   idp, nextNonce, now>>
    /\ UNCHANGED nonAuthVars

\* removeSession lines 329-338: after the clear
RemoveSessionCleared(c) ==
    /\ calls[c].pc = "rs_clearing"
    /\ cachedSessions' = <<>>
    /\ events' = Append(events, RemovedEvent(SessionOf(calls[c].stored)))
    /\ Finish(c, [calls[c] EXCEPT !.outcome = "removed"])
    /\ UNCHANGED <<secrets, activeFlows, pendingCallbacks, startupLoad, idp, nextNonce, now>>
    /\ UNCHANGED nonAuthVars

\* signOut() called, lines 141-146: with a cached session it goes into removeSession
\* for that session's id, with none it has nothing to do
StartSignOut(c) ==
    /\ IF cachedSessions = <<>>
       THEN Begin(c, [IdleCall EXCEPT !.op = "signOut", !.pc = "so_returning"])
       ELSE Begin(c, [IdleCall EXCEPT !.op = "signOut", !.pc = "rs_loading",
                                      !.arg = cachedSessions[1].id,
                                      !.stored = LoadStoredToken(secrets)])
    /\ UNCHANGED <<secrets, cachedSessions, activeFlows, pendingCallbacks, events,
                   startupLoad, idp, nextNonce, now>>
    /\ UNCHANGED nonAuthVars

\* signOut() with nothing cached returns
SignOutReturned(c) ==
    /\ calls[c].pc = "so_returning"
    /\ Finish(c, [calls[c] EXCEPT !.outcome = "noop"])
    /\ UNCHANGED <<secrets, cachedSessions, activeFlows, pendingCallbacks, events,
                   startupLoad, idp, nextNonce, now>>
    /\ UNCHANGED nonAuthVars

-----------------------------------------------------------------------------
(* URI router: pending callbacks *)

\* registerPendingCallback(nonce): Map.set of a resolver with its timer
RegisterPendingCallback(pending, nonce, owner, time) ==
    {e \in pending : e.nonce # nonce}
        \cup {[nonce |-> nonce, owner |-> owner, deadline |-> time + CallbackTimeoutMs]}

\* cancelPendingCallback(nonce): the entry goes, its promise stays unsettled
CancelPendingCallback(pending, nonce) == {e \in pending : e.nonce # nonce}

\* the promise a redirect settles: error parameter, then missing code, then the code
ValidateCallback(uriState, code, error) ==
    IF error THEN RejectedPromise("AuthServerReturnedError", uriState)
    ELSE IF code = "" THEN RejectedPromise("MalformedCallback", uriState)
    ELSE ResolvedPromise(code, uriState)

\* Mutant of HandleUri: a state that matches no pending callback settles one of
\* the pending callbacks all the same.
HandleUri_AnyPending(uriState, code, error) ==
    /\ IF uriState = 0 \/ pendingCallbacks = {}
       THEN UNCHANGED <<pendingCallbacks, calls>>
       ELSE LET entry == IF \E e \in pendingCallbacks : e.nonce = uriState
                         THEN CHOOSE e \in pendingCallbacks : e.nonce = uriState
                         ELSE CHOOSE e \in pendingCallbacks : TRUE
            IN  /\ pendingCallbacks' = pendingCallbacks \ {entry}
                /\ calls' = [calls EXCEPT ![entry.owner].promise =
                                              ValidateCallback(uriState, code, error)]
    /\ UNCHANGED <<secrets, cachedSessions, activeFlows, events, startupLoad, idp,
                   nextNonce, lastEnded, now>>
    /\ UNCHANGED nonAuthVars

\* handleUri(uri): uriState 0 is a URI without state, code "" one without code;
\* a URI without state or without a pending entry is dropped, a matched entry is
\* deleted and its promise settled with the validation result
HandleUri(uriState, code, error) ==
    /\ IF uriState = 0 \/ \A e \in pendingCallbacks : e.nonce # uriState
       THEN UNCHANGED <<pendingCallbacks, calls>>
       ELSE LET entry == CHOOSE e \in pendingCallbacks : e.nonce = uriState
            IN  /\ pendingCallbacks' = pendingCallbacks \ {entry}
                /\ calls' = [calls EXCEPT ![entry.owner].promise =
                                              ValidateCallback(uriState, code, error)]
    /\ UNCHANGED <<secrets, cachedSessions, activeFlows, events, startupLoad, idp,
                   nextNonce, lastEnded, now>>
    /\ UNCHANGED nonAuthVars

\* the timer of a pending callback fires
CallbackTimeout(entry) ==
    /\ entry \in pendingCallbacks
    /\ now >= entry.deadline
    /\ pendingCallbacks' = pendingCallbacks \ {entry}
    /\ calls' = [calls EXCEPT ![entry.owner].promise = RejectedPromise("AuthCallbackTimedOut", 0)]
    /\ UNCHANGED <<secrets, cachedSessions, activeFlows, events, startupLoad, idp,
                   nextNonce, lastEnded, now>>
    /\ UNCHANGED nonAuthVars

-----------------------------------------------------------------------------
(* Authentication service: createSession *)

\* Mutant of FlowStateOf: the flow started last is taken.
FlowStateOf_Latest(flows, nonce) ==
    IF DOMAIN flows = {} THEN NoFlow
    ELSE flows[CHOOSE n \in DOMAIN flows : \A m \in DOMAIN flows : m <= n]

\* _activeFlows.get(nonce)
FlowStateOf(flows, nonce) ==
    IF nonce \in DOMAIN flows THEN flows[nonce] ELSE NoFlow

\* createSession called: buildAuthorizationUrl generates nonce and verifier
StartCreateSession(c) ==
    /\ Begin(c, [IdleCall EXCEPT !.op = "createSession", !.pc = "cs_building",
                                 !.nonce = nextNonce + 1,
                                 !.codeVerifier = GenerateCodeVerifier(nextNonce + 1)])
    /\ nextNonce' = nextNonce + 1
    /\ UNCHANGED <<secrets, cachedSessions, activeFlows, pendingCallbacks, events,
                   startupLoad, idp, now>>
    /\ UNCHANGED nonAuthVars

\* createSession lines 220-235: the flow is stored, the callback registered, the
\* browser asked to open
CreateSessionBuilt(c) ==
    /\ calls[c].pc = "cs_building"
    /\ LET me == calls[c]
       IN  /\ activeFlows' = Put(activeFlows, me.nonce,
                                 [nonce |-> me.nonce, codeVerifier |-> me.codeVerifier,
                                  redirectUri |-> RedirectUri])
           /\ pendingCallbacks' = RegisterPendingCallback(pendingCallbacks, me.nonce, c, now)
           /\ Continue(c, [me EXCEPT !.pc = "cs_opening"])
    /\ UNCHANGED <<secrets, cachedSessions, events, startupLoad, idp, nextNonce, now>>
    /\ UNCHANGED nonAuthVars

\* Mutant of CreateSessionOpened: a browser that does not open leaves the callback
\* registered.
CreateSessionOpened_NoCancel(c, opened) ==
    /\ calls[c].pc = "cs_opening"
    /\ IF opened
       THEN /\ Continue(c, [calls[c] EXCEPT !.pc = "cs_waiting"])
            /\ UNCHANGED <<activeFlows, pendingCallbacks>>
       ELSE /\ activeFlows' = Delete(activeFlows, calls[c].nonce)
            /\ UNCHANGED pendingCallbacks
            /\ Finish(c, [calls[c] EXCEPT !.outcome = "CannotOpenBrowser"])
    /\ UNCHANGED <<secrets, cachedSessions, events, startupLoad, idp, nextNonce, now>>
    /\ UNCHANGED nonAuthVars

\* createSession lines 235-246: openExternal answered
CreateSessionOpened(c, opened) ==
    /\ calls[c].pc = "cs_opening"
    /\ IF opened
       THEN /\ Continue(c, [calls[c] EXCEPT !.pc = "cs_waiting"])
            /\ UNCHANGED <<activeFlows, pendingCallbacks>>
       ELSE /\ activeFlows' = Delete(activeFlows, calls[c].nonce)
            /\ pendingCallbacks' = CancelPendingCallback(pendingCallbacks, calls[c].nonce)
            /\ Finish(c, [calls[c] EXCEPT !.outcome = "CannotOpenBrowser"])
    /\ UNCHANGED <<secrets, cachedSessions, events, startupLoad, idp, nextNonce, now>>
    /\ UNCHANGED nonAuthVars

\* Mutant of CreateSessionCallback: a rejected callback leaves the flow in the map.
CreateSessionCallback_KeepsFlow(c) ==
    /\ calls[c].pc = "cs_waiting"
    /\ calls[c].promise.state # "pending"
    /\ LET me == calls[c]
           flowState == FlowStateOf(activeFlows, me.nonce)
       IN  IF me.promise.state = "rejected"
           THEN /\ UNCHANGED activeFlows
                /\ Finish(c, [me EXCEPT !.outcome = me.promise.error])
           ELSE IF flowState = NoFlow
           THEN /\ activeFlows' = Delete(activeFlows, me.nonce)
                /\ Finish(c, [me EXCEPT !.outcome = "OAuthFlowStateLost"])
           ELSE /\ Continue(c, [me EXCEPT !.pc = "cs_exchanging",
                                          !.exchange = [code |-> me.promise.code,
                                                        codeVerifier |-> flowState.codeVerifier,
                                                        redirectUri |-> flowState.redirectUri]])
                /\ UNCHANGED activeFlows
    /\ UNCHANGED <<secrets, cachedSessions, pendingCallbacks, events, startupLoad, idp,
                   nextNonce, now>>
    /\ UNCHANGED nonAuthVars

\* createSession lines 246-263 and 298-306: the callback promise settled
CreateSessionCallback(c) ==
    /\ calls[c].pc = "cs_waiting"
    /\ calls[c].promise.state # "pending"
    /\ LET me == calls[c]
           flowState == FlowStateOf(activeFlows, me.nonce)
       IN  IF me.promise.state = "rejected"
           THEN /\ activeFlows' = Delete(activeFlows, me.nonce)
                /\ Finish(c, [me EXCEPT !.outcome = me.promise.error])
           ELSE IF flowState = NoFlow
           THEN /\ activeFlows' = Delete(activeFlows, me.nonce)
                /\ Finish(c, [me EXCEPT !.outcome = "OAuthFlowStateLost"])
           ELSE /\ Continue(c, [me EXCEPT !.pc = "cs_exchanging",
                                          !.exchange = [code |-> me.promise.code,
                                                        codeVerifier |-> flowState.codeVerifier,
                                                        redirectUri |-> flowState.redirectUri]])
                /\ UNCHANGED activeFlows
    /\ UNCHANGED <<secrets, cachedSessions, pendingCallbacks, events, startupLoad, idp,
                   nextNonce, now>>
    /\ UNCHANGED nonAuthVars

\* Mutant of CreateSessionExchanged: the added event fires when the token arrives,
\* before the write.
CreateSessionExchanged_EventFirst(c, ok) ==
    /\ calls[c].pc = "cs_exchanging"
    /\ LET me == calls[c]
       IN  IF ok
           THEN \E rt \in {0, idp + 1}, exp \in ExpiresInChoices :
                  LET tokenResponse == TokenResponse(idp + 1, rt, exp)
                  IN  /\ events' = Append(events, AddedEvent(Session(now, idp + 1, "u1")))
                      /\ idp' = idp + 1
                      /\ Continue(c, [me EXCEPT !.pc = "cs_saved",
                                                !.answer = tokenResponse,
                                                !.saved = StoredData(tokenResponse, now, now, "u1")])
                      /\ UNCHANGED <<activeFlows, secrets>>
           ELSE /\ activeFlows' = Delete(activeFlows, me.nonce)
                /\ Finish(c, [me EXCEPT !.outcome = "TokenExchangeFailed"])
                /\ UNCHANGED <<secrets, idp, events>>
    /\ UNCHANGED <<cachedSessions, pendingCallbacks, startupLoad, nextNonce, now>>
    /\ UNCHANGED nonAuthVars

\* Mutant of CreateSessionExchanged: a failed exchange deletes the stored token.
CreateSessionExchanged_FailureClears(c, ok) ==
    /\ calls[c].pc = "cs_exchanging"
    /\ LET me == calls[c]
       IN  IF ok
           THEN \E rt \in {0, idp + 1}, exp \in ExpiresInChoices :
                  LET tokenResponse == TokenResponse(idp + 1, rt, exp)
                  IN  /\ secrets' = SaveToken(secrets, tokenResponse, "u1", now, now)
                      /\ idp' = idp + 1
                      /\ Continue(c, [me EXCEPT !.pc = "cs_saved",
                                                !.answer = tokenResponse,
                                                !.saved = StoredData(tokenResponse, now, now, "u1")])
                      /\ UNCHANGED activeFlows
           ELSE /\ activeFlows' = Delete(activeFlows, me.nonce)
                /\ Finish(c, [me EXCEPT !.outcome = "TokenExchangeFailed"])
                /\ secrets' = ClearStoredToken(secrets)
                /\ UNCHANGED idp
    /\ UNCHANGED <<cachedSessions, pendingCallbacks, events, startupLoad, nextNonce, now>>
    /\ UNCHANGED nonAuthVars

\* createSession lines 258-274 and 298-306: the token endpoint answered
CreateSessionExchanged(c, ok) ==
    /\ calls[c].pc = "cs_exchanging"
    /\ LET me == calls[c]
       IN  IF ok
           THEN \E rt \in {0, idp + 1}, exp \in ExpiresInChoices :
                  LET tokenResponse == TokenResponse(idp + 1, rt, exp)
                  IN  /\ secrets' = SaveToken(secrets, tokenResponse, "u1", now, now)
                      /\ idp' = idp + 1
                      /\ Continue(c, [me EXCEPT !.pc = "cs_saved",
                                                !.answer = tokenResponse,
                                                !.saved = StoredData(tokenResponse, now, now, "u1")])
                      /\ UNCHANGED activeFlows
           ELSE /\ activeFlows' = Delete(activeFlows, me.nonce)
                /\ Finish(c, [me EXCEPT !.outcome = "TokenExchangeFailed"])
                /\ UNCHANGED <<secrets, idp>>
    /\ UNCHANGED <<cachedSessions, pendingCallbacks, events, startupLoad, nextNonce, now>>
    /\ UNCHANGED nonAuthVars

\* createSession lines 276-296 and 302-306: after the save
CreateSessionSaved(c) ==
    /\ calls[c].pc = "cs_saved"
    /\ LET me == calls[c]
           session == SessionOf(me.saved)
       IN  /\ cachedSessions' = <<session>>
           /\ events' = Append(events, AddedEvent(session))
           /\ activeFlows' = Delete(activeFlows, me.nonce)
           /\ Finish(c, [me EXCEPT !.result = <<session>>, !.outcome = "created"])
    /\ UNCHANGED <<secrets, pendingCallbacks, startupLoad, idp, nextNonce, now>>
    /\ UNCHANGED nonAuthVars

\* time passes
Tick ==
    /\ now < MaxTicks * TickMs
    /\ now' = now + TickMs
    /\ UNCHANGED <<secrets, cachedSessions, activeFlows, pendingCallbacks, events, calls,
                   startupLoad, idp, nextNonce, lastEnded>>
    /\ UNCHANGED nonAuthVars

\* session ids removeSession is called with: the stored one, the cached one, a stale one
SessionIds ==
    {LoadStoredToken(secrets).sessionId} \cup {s.id : s \in {cachedSessions[i] : i \in DOMAIN cachedSessions}}
        \cup {-2}

\* query parameters a redirect carries besides state
Redirects ==
    {[code |-> code, error |-> FALSE] : code \in Codes \cup {""}}
        \cup {[code |-> "", error |-> TRUE]}

AuthNext ==
    \/ LoadStoredSessions
    \/ \E c \in Calls, op \in {"getSessions", "getToken"} : StartGetSessions(c, op)
    \/ \E c \in Calls : GetSessionsLoaded(c)
    \/ \E c \in Calls : GetSessionsRefreshed(c)
    \/ \E c \in Calls : GetSessionsSaved(c)
    \/ \E c \in Calls : GetSessionsRefreshFailed(c)
    \/ \E c \in Calls : GetSessionsCleared(c)
    \/ \E c \in Calls : \E sessionId \in SessionIds : StartRemoveSession(c, sessionId)
    \/ \E c \in Calls : RemoveSessionLoaded(c)
    \/ \E c \in Calls : RemoveSessionCleared(c)
    \/ \E c \in Calls : StartSignOut(c)
    \/ \E c \in Calls : SignOutReturned(c)
    \/ \E c \in Calls : StartCreateSession(c)
    \/ \E c \in Calls : CreateSessionBuilt(c)
    \/ \E c \in Calls, opened \in BOOLEAN : CreateSessionOpened(c, opened)
    \/ \E c \in Calls : CreateSessionCallback(c)
    \/ \E c \in Calls, ok \in BOOLEAN : CreateSessionExchanged(c, ok)
    \/ \E c \in Calls : CreateSessionSaved(c)
    \/ \E uriState \in 0..MaxCalls, uri \in Redirects :
          HandleUri(uriState, uri.code, uri.error)
    \/ \E entry \in pendingCallbacks : CallbackTimeout(entry)
    \/ Tick

Spec == Init /\ [][AuthNext]_vars

-----------------------------------------------------------------------------
(* getSessions deciding on a refresh, over a range of tokens and times *)

\* expires_in of the stored token: absent, zero, around five minutes, ten minutes
RefreshExpiresIn == {Absent, 0, 1, 299, 300, 301, 600}
\* issuedAt of the stored token (ms)
RefreshIssuedAt == {0, 1000, 100000}
\* Date.now() at the call (ms)
RefreshTimes == {0, 1000, 300000, 301000, 400000}

\* the service some time after activation: a session stored and loaded, any clock
RefreshInit ==
    /\ ChatQuiescent
    /\ ReqQuiescent
    /\ CatQuiescent
    /\ \E exp \in RefreshExpiresIn, issuedAt \in RefreshIssuedAt :
          secrets = Put(EmptyStore, SecretsKey,
                        StoredData(TokenResponse(100, 100, exp), issuedAt, -1, "u0"))
    /\ now \in RefreshTimes
    /\ cachedSessions = <<SessionOf(LoadStoredToken(secrets))>>
    /\ startupLoad = [pc |-> "done", stored |-> LoadStoredToken(secrets)]
    /\ activeFlows = [n \in {} |-> NoFlow]
    /\ pendingCallbacks = {}
    /\ events = <<>>
    /\ calls = [c \in Calls |-> IdleCall]
    /\ idp = 0
    /\ nextNonce = 0
    /\ lastEnded = NothingEnded

RefreshNext ==
    \/ \E c \in Calls : StartGetSessions(c, "getSessions")
    \/ \E c \in Calls : GetSessionsLoaded(c)

RefreshSpec == RefreshInit /\ [][RefreshNext]_vars

-----------------------------------------------------------------------------
(* FeimaChatEndpoint.makeChatRequest: validation, bearer token, fetch *)

\* ---- message parts (vscode.LanguageModel*Part) ----
CallIds == {"a", "b"}

LanguageModelTextPart == [kind |-> "LanguageModelTextPart", callId |-> ""]
LanguageModelDataPart == [kind |-> "LanguageModelDataPart", callId |-> ""]
LanguageModelToolCallPart(callId) == [kind |-> "LanguageModelToolCallPart", callId |-> callId]
LanguageModelToolResultPart(callId) == [kind |-> "LanguageModelToolResultPart", callId |-> callId]
\* the proposed-API result class, recognised by its constructor name
LanguageModelToolResultPart2(callId) == [kind |-> "LanguageModelToolResultPart2", callId |-> callId]

ChatMessage(role, content) == [role |-> role, content |-> content]

\* part instanceof vscode.LanguageModelToolCallPart
IsToolCall(part) == part.kind = "LanguageModelToolCallPart"

\* isToolResult: instanceof LanguageModelToolResultPart, or the constructor
\* name 'LanguageModelToolResultPart2'
IsToolResult(part) ==
    \/ part.kind = "LanguageModelToolResultPart"
    \/ part.kind = "LanguageModelToolResultPart2"

\* isDataPart
IsDataPart(part) == part.kind = "LanguageModelDataPart"

\* ---- tools ----
Letters ==
    {"a","b","c","d","e","f","g","h","i","j","k","l","m",
     "n","o","p","q","r","s","t","u","v","w","x","y","z",
     "A","B","C","D","E","F","G","H","I","J","K","L","M",
     "N","O","P","Q","R","S","T","U","V","W","X","Y","Z"}

Digits == {"0","1","2","3","4","5","6","7","8","9"}

\* the regular expression class \w
IsWordChar(ch) == ch \in Letters \cup Digits \cup {"_"}

\* tool.name.match(/^[\w-]+$/): a name is its sequence of characters
MatchesToolName(name) ==
    /\ Len(name) >= 1
    /\ \A i \in 1..Len(name) : IsWordChar(name[i]) \/ name[i] = "-"

\* tools.length may not exceed this
MaxTools == 128

\* the l10n key of the toolMode error
ToolModeNotSupported == "error.toolModeNotSupported"

\* _validateTools: "ok", or the message of the Error it throws
ValidateTools(tools, toolMode) ==
    IF \E i \in 1..Len(tools) : ~MatchesToolName(tools[i])
       THEN "Invalid tool name"
    ELSE IF Len(tools) > MaxTools
       THEN "Cannot have more than 128 tools per request."
    ELSE IF toolMode = "Required" /\ Len(tools) > 1
       THEN ToolModeNotSupported
    ELSE "ok"

\* ---- tool call / result pairing ----
UnmatchedToolCall ==
    "Invalid request: Tool call must be followed by User message with LanguageModelToolResultPart with matching callId."

\* toolCallIds of an assistant message: data parts are filtered out first,
\* then the callIds of its tool-call parts are collected
ToolCallIdsOf(message) ==
    LET filteredContent == SelectSeq(message.content, LAMBDA part : ~IsDataPart(part))
    IN  { filteredContent[k].callId :
            k \in { j \in 1..Len(filteredContent) : IsToolCall(filteredContent[j]) } }

\* callIds of the result parts of a message
ResultIdsOf(message) ==
    { message.content[k].callId :
        k \in { j \in 1..Len(message.content) : IsToolResult(message.content[j]) } }

\* the while loop over the messages after an assistant message: "ok", or the
\* message of the Error thrown
RECURSIVE AwaitResults(_, _, _)
AwaitResults(messages, nextIdx, toolCallIds) ==
    IF toolCallIds = {} THEN "ok"
    ELSE IF nextIdx > Len(messages) THEN UnmatchedToolCall
    ELSE LET nextMessage == messages[nextIdx]
             nextContent == nextMessage.content
         IN  IF nextMessage.role # "User" THEN UnmatchedToolCall
             ELSE IF \E k \in 1..Len(nextContent) :
                        ~IsToolResult(nextContent[k]) /\ ~IsDataPart(nextContent[k])
                THEN UnmatchedToolCall
             ELSE IF ~\E k \in 1..Len(nextContent) : IsToolResult(nextContent[k])
                THEN UnmatchedToolCall
             ELSE AwaitResults(messages, nextIdx + 1,
                               toolCallIds \ ResultIdsOf(nextMessage))

\* the body of messages.forEach for message i
PairingAt(messages, i) ==
    IF messages[i].role = "Assistant" /\ ToolCallIdsOf(messages[i]) # {}
       THEN AwaitResults(messages, i + 1, ToolCallIdsOf(messages[i]))
       ELSE "ok"

\* messages.forEach: the first message whose check throws ends the loop
ValidatePairing(messages) ==
    LET failing == { i \in 1..Len(messages) : PairingAt(messages, i) # "ok" }
    IN  IF failing = {} THEN "ok"
        ELSE PairingAt(messages, CHOOSE i \in failing : \A j \in failing : i <= j)

\* options.tools: undefined, or an array of tools (an empty array is truthy)
NoTools == [given |-> FALSE, list |-> <<>>]
Tools(list) == [given |-> TRUE, list |-> list]

\* validateRequest: "ok", or the message of the Error it throws
ValidateRequest(messages, tools, toolMode) ==
    IF Len(messages) = 0 THEN "Invalid request: no messages."
    ELSE IF tools.given /\ ValidateTools(tools.list, toolMode) # "ok"
       THEN ValidateTools(tools.list, toolMode)
    ELSE ValidatePairing(messages)

\* ---- the call ----
ChatRequest(messages, tools, toolMode) ==
    [messages |-> messages, tools |-> tools, toolMode |-> toolMode]

\* how makeChatRequest ends: its promise resolves with a ChatResponse, or
\* rejects with an Error
Returned(type, reason) == [kind |-> "returned", type |-> type, reason |-> reason]
Thrown(message) == [kind |-> "thrown", type |-> "", reason |-> message]

\* the empty string as access token
EmptyAccessToken == 0

\* what authService.getSessions(undefined, {}) resolves with
SessionAnswers ==
    {<<>>} \cup { <<Session("s0", t, "u0")>> : t \in {EmptyAccessToken, 1, 2} }

\* tool names, as sequences of characters
ToolNames == { <<"a">>, <<"Z", "7">>, <<"_", "-">>, <<>>, <<"a", " ">>, <<".">> }

ToolCounts == {0, 1, 2, 128, 129}

\* tool arrays: one name repeated, the last entry possibly another name
ToolLists ==
    { [i \in 1..n |-> IF i = n THEN last ELSE first] :
        n \in ToolCounts, first \in ToolNames, last \in ToolNames }

ToolModes == {"undefined", "Auto", "Required"}

\* message histories of the requests
RequestMessages ==
    { <<>>,
      <<ChatMessage("User", <<LanguageModelTextPart>>)>>,
      <<ChatMessage("User", <<LanguageModelTextPart>>),
        ChatMessage("Assistant", <<LanguageModelToolCallPart("a")>>),
        ChatMessage("User", <<LanguageModelToolResultPart("a")>>)>>,
      <<ChatMessage("User", <<LanguageModelTextPart>>),
        ChatMessage("Assistant", <<LanguageModelToolCallPart("a")>>)>> }

\* what the gateway answers to the POST: the status, whether the error text
\* mentions a quota, whether response.text() can be read, whether there is a body;
\* status 0 is a fetch that throws (network failure, or the abort after 30 seconds)
FetchAnswers ==
    {[status |-> 0, quota |-> FALSE, text |-> FALSE, body |-> FALSE]} \cup
    [status : {200, 403, 429, 500}, quota : BOOLEAN, text : BOOLEAN, body : BOOLEAN]

\* what a parsed stream may have made the wrapper report to the host
ParseReports ==
    { <<>>, <<TextPart("a")>>, <<TextPart("a"), ToolCallPart("tc_1", "search")>> }

RequestInit ==
    /\ ChatQuiescent
    /\ AuthQuiescent
    /\ ReqQuiescent
    /\ CatQuiescent

\* makeChatRequest up to its first await: validateRequest, then getAuthToken()
MakeChatRequest_NoValidation(messages, tools, toolMode) ==
    /\ reqPc = "idle"
    /\ request' = ChatRequest(messages, tools, toolMode)
    /\ reqPc' = "getAuthToken"
    /\ UNCHANGED <<reqOutcome, fetched, authToken, tokenAnswers>>
    /\ UNCHANGED <<response, hostOutcome>>
    /\ UNCHANGED nonReqVars

MakeChatRequest(messages, tools, toolMode) ==
    /\ reqPc = "idle"
    /\ request' = ChatRequest(messages, tools, toolMode)
    /\ LET v == ValidateRequest(messages, tools, toolMode)
       IN  IF v # "ok"
              THEN /\ reqOutcome' = Thrown(v)
                   /\ reqPc' = "done"
              ELSE /\ reqPc' = "getAuthToken"
                   /\ UNCHANGED reqOutcome
    /\ UNCHANGED <<fetched, authToken, tokenAnswers>>
    /\ UNCHANGED <<response, hostOutcome>>
    /\ UNCHANGED nonReqVars

\* getAuthToken() of line 538 settles: it throws 'Not authenticated' when there
\* is no session, outside the try block of makeChatRequest
GetAuthTokenSettled(sessions) ==
    /\ reqPc = "getAuthToken"
    /\ IF sessions = <<>>
          THEN /\ reqOutcome' = Thrown("Not authenticated")
               /\ reqPc' = "done"
               /\ UNCHANGED authToken
       ELSE IF sessions[1].accessToken = EmptyAccessToken
          THEN /\ reqOutcome' = Returned("error", "Authentication failed: no token available")
               /\ reqPc' = "done"
               /\ UNCHANGED authToken
       ELSE /\ authToken' = sessions[1].accessToken
            /\ reqPc' = "getHeaders"
            /\ UNCHANGED reqOutcome
    /\ tokenAnswers' = Append(tokenAnswers, sessions)
    /\ UNCHANGED <<request, fetched>>
    /\ UNCHANGED <<response, hostOutcome>>
    /\ UNCHANGED nonReqVars

\* getHeaders() settles (it calls getAuthToken() again, inside the try block),
\* then fetch is called with the Authorization header of the first token
GetHeadersSettled(sessions) ==
    /\ reqPc = "getHeaders"
    /\ IF sessions = <<>>
          THEN /\ reqOutcome' = Returned("error", "Not authenticated")
               /\ reqPc' = "done"
               /\ UNCHANGED fetched
          ELSE /\ fetched' = Append(fetched, [authorization |-> authToken, body |-> request])
               /\ reqPc' = "fetch"
               /\ UNCHANGED reqOutcome
    /\ tokenAnswers' = Append(tokenAnswers, sessions)
    /\ UNCHANGED <<request, authToken>>
    /\ UNCHANGED <<response, hostOutcome>>
    /\ UNCHANGED nonReqVars

\* response.ok
Ok(answer) == answer.status >= 200 /\ answer.status <= 299

\* the ChatResponse for a response that is not ok (lines 569-610)
ErrorResponse(answer) ==
    IF ~answer.text THEN Returned("error", "body unreadable")
    ELSE IF answer.status = 403 THEN Returned("blocked", "error.extensionBlocked")
    ELSE IF answer.status = 429
       THEN IF answer.quota
               THEN Returned("quotaExceeded", "error.quotaExceeded")
               ELSE Returned("rateLimited", "error.rateLimited")
    ELSE Returned("error", "error.httpRequest")

\* Mutant of FetchSettled: the body is parsed whatever the status.
FetchSettled_IgnoresStatus(answer) ==
    /\ reqPc = "fetch"
    /\ response' = answer
    /\ IF answer.status = 0
          THEN /\ reqOutcome' = Returned("error", "fetch failed")
               /\ reqPc' = "done"
       ELSE IF ~answer.body
          THEN /\ reqOutcome' = Returned("error", "error.noResponseBody")
               /\ reqPc' = "done"
       ELSE /\ reqPc' = "parseSSEStream"
            /\ UNCHANGED reqOutcome
    /\ UNCHANGED <<request, fetched, authToken, tokenAnswers, hostOutcome>>
    /\ UNCHANGED nonReqVars

\* fetch settles
FetchSettled(answer) ==
    /\ reqPc = "fetch"
    /\ response' = answer
    /\ IF answer.status = 0
          THEN /\ reqOutcome' = Returned("error", "fetch failed")
               /\ reqPc' = "done"
       ELSE IF ~Ok(answer)
          THEN /\ reqOutcome' = ErrorResponse(answer)
               /\ reqPc' = "done"
       ELSE IF ~answer.body
          THEN /\ reqOutcome' = Returned("error", "error.noResponseBody")
               /\ reqPc' = "done"
       ELSE /\ reqPc' = "parseSSEStream"
            /\ UNCHANGED reqOutcome
    /\ UNCHANGED <<request, fetched, authToken, tokenAnswers, hostOutcome>>
    /\ UNCHANGED nonReqVars

\* _parseSSEStream settles, having made the wrapper report `parts`: it resolves,
\* or what it throws is caught
ParseSSEStreamSettled(threw, parts) ==
    /\ reqPc = "parseSSEStream"
    /\ isCancellationRequested => parts = <<>> /\ ~threw   \* the read loop is not entered
    /\ reported' = parts
    /\ reqOutcome' = IF threw THEN Returned("error", "stream error")
                              ELSE Returned("success", "")
    /\ reqPc' = "done"
    /\ UNCHANGED <<request, fetched, authToken, tokenAnswers, response, hostOutcome>>
    /\ UNCHANGED <<stream, tailComplete, linesDone, chunkLeft, toolCallsMap, fullText,
                   reportedToolCallIds, ssePc, isCancellationRequested, chatResult,
                   handedToolCalls>>
    /\ UNCHANGED nonChatReqVars

\* provideLanguageModelResponse after await endpoint.makeChatRequest(...), lines
\* 136-154: an exception of makeChatRequest goes through, a result that is not
\* success becomes an Error carrying its reason
WrapperSettled ==
    /\ reqPc = "done"
    /\ hostOutcome = <<>>
    /\ hostOutcome' = IF reqOutcome.kind = "thrown" THEN reqOutcome
                      ELSE IF reqOutcome.type # "success" THEN Thrown(reqOutcome.reason)
                      ELSE Returned("void", "")
    /\ UNCHANGED <<request, reqPc, reqOutcome, fetched, authToken, tokenAnswers, response>>
    /\ UNCHANGED nonReqVars

RequestNext ==
    \/ \E messages \in RequestMessages, tools \in {NoTools} \cup { Tools(l) : l \in ToolLists },
          toolMode \in ToolModes : MakeChatRequest(messages, tools, toolMode)
    \/ \E sessions \in SessionAnswers : GetAuthTokenSettled(sessions)
    \/ \E sessions \in SessionAnswers : GetHeadersSettled(sessions)
    \/ \E answer \in FetchAnswers : FetchSettled(answer)
    \/ \E threw \in BOOLEAN, parts \in ParseReports : ParseSSEStreamSettled(threw, parts)
    \/ WrapperSettled

RequestSpec == RequestInit /\ [][RequestNext]_vars

\* the host trips the request's cancellation token while makeChatRequest is at
\* one of its awaits before the parser
CancelMakeChatRequest ==
    /\ reqPc \in {"getAuthToken", "getHeaders", "fetch"}
    /\ ~isCancellationRequested
    /\ isCancellationRequested' = TRUE
    /\ UNCHANGED <<stream, tailComplete, linesDone, chunkLeft, toolCallsMap, fullText,
                   reported, reportedToolCallIds, ssePc, chatResult, handedToolCalls>>
    /\ UNCHANGED <<authVars, reqVars, catVars>>

\* makeChatRequest with a host that may cancel it
CancelNext ==
    \/ RequestNext
    \/ CancelMakeChatRequest

CancelSpec == RequestInit /\ [][CancelNext]_vars

-----------------------------------------------------------------------------
(* validateRequest on its own, over every short message history *)

MaxParts == 2
MaxMessages == 3

Roles == {"User", "Assistant"}

Parts ==
    { LanguageModelTextPart, LanguageModelDataPart,
      LanguageModelToolCallPart("a"), LanguageModelToolCallPart("b"),
      LanguageModelToolResultPart("a"), LanguageModelToolResultPart2("b") }

Contents == UNION { [1..n -> Parts] : n \in 0..MaxParts }

Messages == { ChatMessage(role, content) : role \in Roles, content \in Contents }

MessageSeqs == UNION { [1..n -> Messages] : n \in 0..MaxMessages }

ValidateInit ==
    /\ ChatQuiescent
    /\ AuthQuiescent
    /\ CatQuiescent
    /\ request \in { ChatRequest(m, NoTools, "undefined") : m \in MessageSeqs }
    /\ reqPc = "idle"
    /\ reqOutcome = <<>>
    /\ fetched = <<>>
    /\ authToken = -1
    /\ tokenAnswers = <<>>
    /\ response = <<>>
    /\ hostOutcome = <<>>

\* validateRequest(messages, {}) is called and returns or throws
CallValidateRequest ==
    /\ reqPc = "idle"
    /\ LET v == ValidateRequest(request.messages, request.tools, request.toolMode)
       IN  reqOutcome' = IF v = "ok" THEN Returned("void", "") ELSE Thrown(v)
    /\ reqPc' = "done"
    /\ UNCHANGED <<request, fetched, authToken, tokenAnswers>>
    /\ UNCHANGED <<response, hostOutcome>>
    /\ UNCHANGED nonReqVars

ValidateNext == CallValidateRequest

ValidateSpec == ValidateInit /\ [][ValidateNext]_vars

-----------------------------------------------------------------------------
(* Properties of the chat pipeline *)

ToolCallPositions(id) ==
    { i \in 1..Len(reported) : reported[i].type = "toolCall" /\ reported[i].id = id }

ReportedTexts == SelectSeq(reported, LAMBDA p : p.type = "text")

TextValues == [i \in 1..Len(ReportedTexts) |-> ReportedTexts[i].value]

\* the lines the parser has handled so far
HandledLines == SubSeq(stream, 1, linesDone)

RECURSIVE ContentsOf(_, _)
\* the content values of the data lines of `ls`, in order; with `all` the empty
\* string counts as a content value, without it only non-empty strings do
ContentsOf(ls, all) ==
    IF ls = <<>> THEN <<>>
    ELSE LET l == Head(ls)
             here == IF l.kind = "data" /\ l.content # <<>> /\ (all \/ l.content[1] # "")
                     THEN l.content ELSE <<>>
         IN here \o ContentsOf(Tail(ls), all)

\* C1: every tool-call id that reaches the host's progress sink reaches it
\* exactly once, however often the endpoint hands the call to the callback
\* (at finish_reason, at [DONE], at stream end).
C1_ToolCallIdReportedOnce ==
    \A i \in 1..Len(reported) :
        reported[i].type = "toolCall" => ToolCallPositions(reported[i].id) = {i}

\* C1 witness: a request that ended after a finish_reason line and a later
\* [DONE] line were both handled, with call tc_1 reported to the host.
C1_Witness ==
    /\ ssePc = "released"
    /\ linesDone = Len(stream)
    /\ \E i, j \in 1..Len(stream) :
          i < j /\ stream[i].kind = "data" /\ stream[i].finish /\ stream[j].kind = "done"
    /\ ToolCallPositions("tc_1") # {}
    /\ ToolCallPositions("tc_2") # {}

\* C5 (amended): the TextParts at the host are exactly the non-empty content
\* values of the deltas handled so far, one TextPart per delta, in stream order.
C5_TextPartsFollowContent == TextValues = ContentsOf(HandledLines, FALSE)

\* C5 as stated: one TextPart for every delta that carries a content value,
\* the empty string included.
C5_EveryContentReported == TextValues = ContentsOf(HandledLines, TRUE)

\* C5 witness: content "a" and later content "b" both handled, with a
\* tool call reported together with "b".
C5_Witness ==
    /\ \E i, j \in 1..Len(reported) :
          /\ i < j
          /\ reported[i] = TextPart("a")
          /\ reported[j] = TextPart("b")
    /\ \E k \in 1..Len(reported) : reported[k].type = "toolCall"

-----------------------------------------------------------------------------
(* Properties of the authentication service *)

Done(c, op) == calls[c].op = op /\ calls[c].pc = "done"

\* C2: whatever createSession, removeSession and refreshes do and however they
\* interleave, the secret store holds nothing but the one blob under feimaAuth.tokens,
\* hence at most one stored session.
C2_SingleStoredSession ==
    /\ DOMAIN secrets \subseteq {SecretsKey}
    /\ Cardinality({k \in DOMAIN secrets : secrets[k].kind = "session"}) <= 1

\* a createSession has just written its session over the one of an earlier run
C2_Witness ==
    /\ startupLoad.stored.kind = "session"
    /\ \E c \in Calls :
         /\ calls[c].pc = "cs_saved"
         /\ secrets[SecretsKey] = calls[c].saved
         /\ secrets[SecretsKey] # startupLoad.stored

\* C3: with two createSession calls in flight the router holds at most one pending
\* callback per nonce, each registered for the call that generated the nonce; a promise
\* settled by a redirect was settled by a redirect carrying its own call's nonce; and
\* the token exchange of a flow uses the delivered code with that flow's own verifier
\* and redirect URI.
C3_ConcurrentFlowsIsolated ==
    /\ \A e1, e2 \in pendingCallbacks : e1.nonce = e2.nonce => e1 = e2
    /\ \A e \in pendingCallbacks : calls[e.owner].nonce = e.nonce
    /\ \A c \in Calls :
         calls[c].promise.state # "pending" /\ calls[c].promise.uriState # 0
            => calls[c].promise.uriState = calls[c].nonce
    /\ \A c \in Calls :
         calls[c].pc = "cs_exchanging"
            => calls[c].exchange = [code |-> calls[c].promise.code,
                                    codeVerifier |-> GenerateCodeVerifier(calls[c].nonce),
                                    redirectUri |-> RedirectUri]

\* two flows were in flight together, each got a redirect with a code of its own, and
\* both are exchanging
C3_Witness ==
    /\ \A c \in {1, 2} : calls[c].pc = "cs_exchanging"
    /\ calls[1].nonce # calls[2].nonce
    /\ calls[1].exchange.code # calls[2].exchange.code

\* C4: the step in which getSessions saves a refreshed token whose response carried no
\* refresh_token writes a stored session that holds the refresh token read before the
\* refresh, together with the new access token.
C4_RefreshTokenKept ==
    [][\A c \in Calls :
          /\ calls[c].pc = "gs_refreshing"
          /\ calls'[c].pc = "gs_saved"
          /\ calls'[c].answer.refresh_token = 0
          => /\ SecretsKey \in DOMAIN secrets'
             /\ secrets'[SecretsKey].kind = "session"
             /\ secrets'[SecretsKey].tokenResponse.refresh_token
                    = calls[c].stored.tokenResponse.refresh_token
             /\ secrets'[SecretsKey].tokenResponse.refresh_token # 0
             /\ secrets'[SecretsKey].tokenResponse.access_token
                    = calls'[c].answer.access_token]_vars

\* a refresh answered without refresh_token has just been saved
C4_Witness ==
    \E c \in Calls :
       /\ calls[c].pc = "gs_saved"
       /\ calls[c].answer.refresh_token = 0
       /\ calls[c].stored.tokenResponse.refresh_token # 0
       /\ secrets[SecretsKey] = calls[c].saved

\* C6: when the refresh attempted by getSessions fails, the step handling the failure
\* deletes the stored token and fires no event, and the step that follows empties the
\* cached-session slot, returns the empty list and fires no event.
C6_RefreshFailureSignsOut ==
    [][\A c \in Calls :
          /\ calls[c].pc = "gs_refreshing" /\ calls'[c].pc = "gs_clearing"
                => SecretsKey \notin DOMAIN secrets' /\ events' = events
          /\ calls[c].pc = "gs_clearing" /\ calls'[c].pc = "done"
                => /\ cachedSessions' = <<>>
                   /\ calls'[c].result = <<>>
                   /\ calls'[c].token = 0
                   /\ events' = events]_vars

\* a getSessions that ran alone on a stored session ended on the failure path
C6_Witness ==
    \E c \in Calls :
       /\ Done(c, "getSessions")
       /\ calls[c].outcome = "refreshFailed"
       /\ ~calls[c].overlapped
       /\ calls[c].stored.kind = "session"
       /\ SecretsKey \notin DOMAIN secrets
       /\ cachedSessions = <<>>
       /\ Len(events) = calls[c].eventsBefore

\* C7: once removeSession(I) has completed for the stored session id I, with no other
\* call in flight meanwhile and none started since, the key is absent, the cache is empty
\* and exactly one event was fired, a removed event carrying the prior session; and a
\* getSessions() that follows such a removal, running alone, returns [].
C7_RemoveThenGetSessions ==
    /\ \A c \in Calls :
          /\ Done(c, "removeSession")
          /\ calls[c].outcome = "removed"
          /\ ~calls[c].overlapped
          /\ lastEnded = Ended("removeSession", "removed", <<>>, calls[c].endedAt, FALSE)
          /\ \A d \in Calls : d > c => calls[d].pc = "idle"
          => /\ SecretsKey \notin DOMAIN secrets
             /\ cachedSessions = <<>>
             /\ events = Append(SubSeq(events, 1, calls[c].eventsBefore),
                                RemovedEvent(SessionOf(calls[c].stored)))
             /\ calls[c].stored.sessionId = calls[c].arg
    /\ \A g \in Calls :
          /\ Done(g, "getSessions")
          /\ ~calls[g].overlapped
          /\ calls[g].after.op = "removeSession"
          /\ calls[g].after.outcome = "removed"
          /\ ~calls[g].after.overlapped
          => calls[g].result = <<>>

\* removeSession(I) removed the stored session and the getSessions() after it returned
C7_Witness ==
    \E c, g \in Calls :
       /\ c < g
       /\ Done(c, "removeSession") /\ calls[c].outcome = "removed" /\ ~calls[c].overlapped
       /\ Done(g, "getSessions") /\ ~calls[g].overlapped
       /\ calls[g].after.op = "removeSession" /\ calls[g].after.outcome = "removed"
       /\ ~calls[g].after.overlapped
       /\ calls[g].result = <<>>
       /\ events = <<RemovedEvent(SessionOf(calls[c].stored))>>

\* the stored data the token returned by call c came from
ReturnedTokenData(c) ==
    IF calls[c].outcome = "refreshed" THEN calls[c].saved ELSE calls[c].stored

\* the expiry time issuedAt + expires_in*1000 has passed
PastExpiry(data, time) ==
    /\ data.tokenResponse.expires_in # Absent
    /\ time > data.issuedAt + data.tokenResponse.expires_in * 1000

\* C8: a getToken() during which the clock did not move never returns an access token
\* whose expiry time issuedAt + expires_in*1000 has already passed.
C8_GetTokenNeverPastExpiry ==
    \A c \in Calls :
       /\ Done(c, "getToken")
       /\ calls[c].startedAt = calls[c].endedAt
       /\ calls[c].token # 0
       => ~PastExpiry(ReturnedTokenData(c), calls[c].endedAt)

\* C9: the step of createSession that receives the exchanged token writes the stored
\* session and touches neither cache nor events; the step after it sets the cache to the
\* new session and fires one added event carrying it; no other step fires an added
\* event; and the events hold the added event of a createSession exactly once when it
\* has returned and not at all before.
C9_PersistThenCacheThenEvent ==
    /\ [](\A c \in Calls :
            calls[c].op = "createSession" /\ calls[c].saved.kind = "session"
               => Cardinality({i \in DOMAIN events :
                                 events[i] = AddedEvent(SessionOf(calls[c].saved))})
                     = IF calls[c].pc = "done" THEN 1 ELSE 0)
    /\ [][/\ \A c \in Calls :
               /\ calls[c].pc = "cs_exchanging" /\ calls'[c].pc = "cs_saved"
                     => /\ SecretsKey \in DOMAIN secrets'
                        /\ secrets'[SecretsKey] = calls'[c].saved
                        /\ calls'[c].saved.tokenResponse = calls'[c].answer
                        /\ events' = events
                        /\ cachedSessions' = cachedSessions
               /\ calls[c].pc = "cs_saved" /\ calls'[c].pc = "done"
                     => /\ cachedSessions' = <<SessionOf(calls[c].saved)>>
                        /\ events' = Append(events, AddedEvent(SessionOf(calls[c].saved)))
                        /\ calls'[c].result = <<SessionOf(calls[c].saved)>>
          /\ (Len(events') > Len(events) /\ events'[Len(events')].kind = "added")
                => \E c \in Calls : calls[c].pc = "cs_saved" /\ calls'[c].pc = "done"]_vars

\* a createSession returned its session: stored, cached, and announced last
C9_Witness ==
    \E c \in Calls :
       /\ Done(c, "createSession")
       /\ calls[c].outcome = "created"
       /\ calls[c].promise.state = "resolved"
       /\ secrets[SecretsKey] = calls[c].saved
       /\ cachedSessions = calls[c].result
       /\ events = <<AddedEvent(calls[c].result[1])>>

RefreshWriters ==
    {c \in Calls : calls[c].op \in {"getSessions", "getToken"} /\ calls[c].saved.kind = "session"}

\* C12: when overlapping getSessions() calls refreshed the same stored token and nothing
\* else wrote or cleared the store, the store holds a well-formed stored session: the one
\* written by the refresh that was answered and saved last.
C12_LatestRefreshWins ==
    (/\ \A c \in Calls : calls[c].op \in {"none", "getSessions", "getToken"}
                         /\ calls[c].pc # "gs_clearing"
                         /\ calls[c].outcome # "refreshFailed"
     /\ \E c1, c2 \in RefreshWriters : c1 # c2 /\ calls[c1].stored = calls[c2].stored)
    => LET last == CHOOSE c \in RefreshWriters :
                      \A d \in RefreshWriters :
                         calls[d].answer.access_token <= calls[c].answer.access_token
       IN  /\ DOMAIN secrets = {SecretsKey}
           /\ secrets[SecretsKey] = calls[last].saved
           /\ secrets[SecretsKey].kind = "session"
           /\ secrets[SecretsKey].tokenResponse.access_token = calls[last].answer.access_token
           /\ secrets[SecretsKey].tokenResponse.refresh_token # 0
           /\ secrets[SecretsKey].sessionId = calls[last].stored.sessionId

\* two getSessions() read the same token, both refreshed it, the second answer overwrote
\* the first, and both have returned
C12_Witness ==
    /\ Done(1, "getSessions") /\ Done(2, "getSessions")
    /\ calls[1].outcome = "refreshed" /\ calls[2].outcome = "refreshed"
    /\ calls[1].stored = calls[2].stored
    /\ calls[1].saved # calls[2].saved
    /\ secrets[SecretsKey] \in {calls[1].saved, calls[2].saved}

\* getSessions() g ran alone, right after a getSessions() that ran alone, and the clock
\* stood still from the end of the first to the end of the second
SecondOfTwoGetSessions(g) ==
    /\ Done(g, "getSessions")
    /\ ~calls[g].overlapped
    /\ calls[g].after.op = "getSessions"
    /\ ~calls[g].after.overlapped
    /\ calls[g].after.endedAt = calls[g].startedAt
    /\ calls[g].startedAt = calls[g].endedAt

\* the refresh condition of getSessions line 162 for what call g read from the store
RefreshDue(g) ==
    /\ calls[g].stored.kind = "session"
    /\ ShouldRefreshToken(calls[g].stored.tokenResponse, calls[g].stored.issuedAt,
                          calls[g].startedAt)
    /\ calls[g].stored.tokenResponse.refresh_token # 0

\* the call asked the IdP for a refresh
HitIdp(g) == calls[g].outcome \in {"refreshed", "refreshFailed"}

\* C13 as stated: the second of two consecutive getSessions() calls returns the sessions
\* of the first, and asks the IdP only if a refresh is due.
C13_ConsecutiveGetSessionsEquivalent ==
    \A g \in Calls :
       SecondOfTwoGetSessions(g)
          => /\ calls[g].result = calls[g].after.result
             /\ HitIdp(g) => RefreshDue(g)

\* C13: the second of two consecutive getSessions() calls asks the IdP exactly when a
\* refresh is due for the token it read, and when none is due it returns the sessions of
\* the first call.
C13_EquivalentUnlessRefreshDue ==
    \A g \in Calls :
       SecondOfTwoGetSessions(g)
          => /\ HitIdp(g) <=> RefreshDue(g)
             /\ ~RefreshDue(g) => calls[g].result = calls[g].after.result

\* the first call refreshed the token, the second found it fresh and returned the same
\* session
C13_Witness ==
    \E g \in Calls :
       /\ SecondOfTwoGetSessions(g)
       /\ calls[g].after.outcome = "refreshed"
       /\ calls[g].outcome = "valid"
       /\ calls[g].result = calls[g].after.result
       /\ calls[g].result # <<>>

\* C14: getSessions, reading a stored token that has a refresh token, goes on to refresh
\* (shouldRefreshToken returned true) if and only if expires_in is present and
\* (issuedAt + expires_in*1000) - now is strictly less than 5 minutes.
C14_ShouldRefreshIff ==
    \A c \in Calls :
       /\ calls[c].op = "getSessions"
       /\ calls[c].pc \in {"gs_refreshing", "done"}
       /\ calls[c].stored.kind = "session"
       /\ calls[c].stored.tokenResponse.refresh_token # 0
       => (calls[c].pc = "gs_refreshing"
             <=> /\ calls[c].stored.tokenResponse.expires_in # Absent
                 /\ (calls[c].stored.issuedAt
                        + calls[c].stored.tokenResponse.expires_in * 1000) - calls[c].startedAt
                       < 5 * 60 * 1000)

\* no call has run since call c returned
LastEnded(c) ==
    /\ lastEnded.op = calls[c].op
    /\ \A d \in Calls : d > c => calls[d].pc = "idle"

\* C15: a getSessions() that ran alone and found no usable stored token, the unparsable
\* blob included, leaves the key absent and the cache empty and returns [].
C15_CorruptBlobDiscarded ==
    \A c \in Calls :
       /\ Done(c, "getSessions")
       /\ calls[c].outcome = "noSession"
       /\ ~calls[c].overlapped
       /\ LastEnded(c)
       => /\ SecretsKey \notin DOMAIN secrets
          /\ cachedSessions = <<>>
          /\ calls[c].result = <<>>

\* C16: once a signOut() has completed, no other call having run beside it, the secret
\* store holds no token, and a getSessions() that follows it returns [].
C16_SignOutClearsTokens ==
    /\ \A c \in Calls :
          Done(c, "signOut") /\ (\A d \in Calls : d # c => calls[d].pc = "idle")
             => LoadStoredToken(secrets) = NoStored
    /\ (/\ Done(1, "signOut")
        /\ Done(2, "getSessions")
        /\ ~calls[2].overlapped
        /\ calls[2].after.op = "signOut")
       => calls[2].result = <<>>

\* the response body has no [DONE] line
NoDoneLine == \A i \in DOMAIN stream : stream[i].kind # "done"

\* C17: when the parsing of a stream without [DONE] line has ended, then either the
\* request returns and every accumulated tool call with non-empty id and name has been
\* reported to the host exactly once, or the request fails on an accumulated call that
\* was never reported because its arguments do not parse.
C17_StreamEndEmitsToolCalls ==
    (ssePc = "released" /\ NoDoneLine)
       => LET completed == CompletedCalls(toolCallsMap)
          IN  IF chatResult = "success"
              THEN \A k \in DOMAIN completed :
                      Cardinality(ToolCallPositions(completed[k].id)) = 1
              ELSE \E k \in DOMAIN completed :
                      /\ ~ArgumentsAccepted(completed[k].arguments)
                      /\ ToolCallPositions(completed[k].id) = {}

\* a stream with neither finish_reason nor [DONE] ended, and both accumulated calls
\* reached the host at its end
C17_Witness ==
    /\ ssePc = "released"
    /\ chatResult = "success"
    /\ NoDoneLine
    /\ \A i \in DOMAIN stream : ~stream[i].finish
    /\ Len(CompletedCalls(toolCallsMap)) = 2
    /\ ToolCallPositions("tc_1") # {}
    /\ ToolCallPositions("tc_2") # {}

-----------------------------------------------------------------------------
(* Properties of makeChatRequest *)

\* the last getAuthToken() of the call found no session
NoBearerToken ==
    /\ tokenAnswers # <<>>
    /\ tokenAnswers[Len(tokenAnswers)] = <<>>

\* C18: when the authentication service yields no bearer token,
\* makeChatRequest returns {type: error, reason: "Not authenticated"}
\* instead of throwing, and sends no request to the gateway.
C18_NoTokenReturnsError ==
    NoBearerToken =>
        /\ reqPc = "done"
        /\ reqOutcome = Returned("error", "Not authenticated")
        /\ fetched = <<>>

\* the request of the call failed validateRequest
FailsValidation ==
    /\ request # <<>>
    /\ ValidateRequest(request.messages, request.tools, request.toolMode) # "ok"

\* the ways to fail that the tools and the message count give
NoMessages == Len(request.messages) = 0

BadToolName ==
    /\ request.tools.given
    /\ \E i \in 1..Len(request.tools.list) :
          \E k \in 1..Len(request.tools.list[i]) :
             request.tools.list[i][k] \notin Letters \cup Digits \cup {"_", "-"}

TooManyTools == request.tools.given /\ Len(request.tools.list) > MaxTools

RequiredWithSeveralTools ==
    /\ request.tools.given
    /\ request.toolMode = "Required"
    /\ Len(request.tools.list) > 1

\* C19: a chat request that fails validation (zero messages, a tool name with
\* a character other than letters, digits, underscore or hyphen, more than 128
\* tools, or toolMode Required with more than one tool) fails with an
\* exception to the caller, and no HTTP call is issued.
C19_InvalidRequestThrowsBeforeFetch ==
    (request # <<>> /\
       (NoMessages \/ BadToolName \/ TooManyTools \/ RequiredWithSeveralTools
          \/ FailsValidation)) =>
        /\ reqPc = "done"
        /\ reqOutcome.kind = "thrown"
        /\ reqOutcome = Thrown(ValidateRequest(request.messages, request.tools,
                                               request.toolMode))
        /\ fetched = <<>>
        /\ tokenAnswers = <<>>

C19_Witness ==
    /\ reqPc = "done"
    /\ ~NoMessages
    /\ TooManyTools
    /\ ~BadToolName
    /\ reqOutcome = Thrown("Cannot have more than 128 tools per request.")
    /\ fetched = <<>>

\* the result parts of message j that carry callId id
ResultsFor(messages, j, id) ==
    { k \in 1..Len(messages[j].content) :
        IsToolResult(messages[j].content[k]) /\ messages[j].content[k].callId = id }

\* message j is a user message made of tool results and data parts only, with
\* exactly one result for each of the ids
AnswersExactly(messages, j, ids) ==
    /\ messages[j].role = "User"
    /\ \A k \in 1..Len(messages[j].content) :
          IsToolResult(messages[j].content[k]) \/ IsDataPart(messages[j].content[k])
    /\ \A id \in ids : Cardinality(ResultsFor(messages, j, id)) = 1

\* every assistant message with tool calls is answered by a following user message
EveryToolCallAnswered(messages) ==
    \A i \in 1..Len(messages) :
       (messages[i].role = "Assistant" /\ ToolCallIdsOf(messages[i]) # {})
          => \E j \in (i + 1)..Len(messages) :
                AnswersExactly(messages, j, ToolCallIdsOf(messages[i]))

\* C20: validateRequest accepts a message sequence only if every assistant message
\* with tool-call parts is answered by a following user message whose parts are
\* exclusively tool results or data parts and whose callIds cover every tool-call
\* id, with exactly one result per call; any other sequence fails with
\* UnmatchedToolCall.
C20_AcceptsOnlyAnsweredToolCalls ==
    (reqPc = "done" /\ request.messages # <<>>) =>
        IF EveryToolCallAnswered(request.messages)
           THEN TRUE
           ELSE reqOutcome = Thrown(UnmatchedToolCall)

-----------------------------------------------------------------------------
(* ModelCatalogService and FeimaLanguageModelProvider *)

\* Bounds of the catalog model
MaxCatCalls == 2
MaxEvents == 2
MaxCatTicks == 1

CatCalls == 1..MaxCatCalls

\* _cacheDuration
CacheDuration == 5 * 60 * 1000

\* Date.now() at activation (ms): any time of day, far from 0
ActivationTime == 10 * 1000 * 1000

\* when the session of an earlier run was issued: 50 minutes before activation,
\* so that its hour-long token is still good at activation and due for a
\* refresh a few minutes later
EarlierRunIssuedAt == 7 * 1000 * 1000

ModelIds == {"m1", "m2"}

\* an entry of data.data with its capabilities.type
Model(id, type) == [id |-> id, type |-> type]

\* an entry of data.data without capabilities: reading capabilities.type throws
MalformedEntry == [id |-> "", type |-> "undefined"]

\* the three lists, and whether the loop over data.data threw
Lists(chat, completion, embeddings) ==
    [chat |-> chat, completion |-> completion, embeddings |-> embeddings, threw |-> FALSE]

EmptyLists == Lists(<<>>, <<>>, <<>>)

CurrentLists == Lists(chatModels, completionModels, embeddingModels)

\* lines 255-263: the categorisation loop, from the lists `acc`
RECURSIVE Categorize(_, _)
Categorize(data, acc) ==
    IF data = <<>> THEN acc
    ELSE LET model == Head(data) IN
         IF model = MalformedEntry THEN [acc EXCEPT !.threw = TRUE]
         ELSE IF model.type = "chat"
            THEN Categorize(Tail(data), [acc EXCEPT !.chat = Append(@, model)])
         ELSE IF model.type = "completion"
            THEN Categorize(Tail(data), [acc EXCEPT !.completion = Append(@, model)])
         ELSE IF model.type = "embeddings"
            THEN Categorize(Tail(data), [acc EXCEPT !.embeddings = Append(@, model)])
         ELSE Categorize(Tail(data), acc)

\* lines 195-196: cacheValid at Date.now() = time
CacheValid(time) ==
    /\ Len(chatModels) > 0 \/ Len(completionModels) > 0
    /\ time - lastFetch < CacheDuration

\* what the models endpoint answers to the GET: status 0 is a fetch that throws
\* (network failure, or the abort after 30 seconds); json tells what response.json()
\* does: it rejects, resolves with a value without data array, or with data
CatalogAnswer(status, json, data) == [status |-> status, json |-> json, data |-> data]

NoAnswer == CatalogAnswer(0, "", <<>>)

DataLists ==
    { <<Model("m1", "chat")>>,
      <<Model("m2", "chat"), Model("m1", "completion")>>,
      <<Model("m2", "embeddings"), Model("m1", "image")>>,
      <<Model("m1", "chat"), MalformedEntry, Model("m2", "chat")>> }

CatalogAnswers ==
    { NoAnswer, CatalogAnswer(500, "", <<>>),
      CatalogAnswer(200, "rejects", <<>>), CatalogAnswer(200, "noData", <<>>) }
    \cup { CatalogAnswer(200, "data", data) : data \in DataLists }

\* a call of one of the catalog's or the provider's async methods, with the
\* locals of _fetchIfNeeded
IdleCatCall ==
    [op |-> "none", pc |-> "idle", force |-> FALSE, arg |-> "",
     event |-> 0, startNow |-> 0, accessToken |-> 0, answer |-> NoAnswer,
     fetch |-> "", result |-> <<>>, outcome |-> "", eventsBefore |-> 0,
     overlapped |-> FALSE]

CatInFlight(k) == catCalls[k].pc \notin {"idle", "done"}

\* the token response of the n-th sign-in or refresh: valid for an hour
HourToken(n) == TokenResponse(n, n, 3600)

\* a createSession or removeSession call of the host between its write to the
\* secret store and its event about `session`
PendingAuth(op, session) == <<[op |-> op, session |-> session]>>

\* the service some time after activation: signed in or not, catalog not yet used
CatalogInit ==
    /\ ChatQuiescent
    /\ ReqQuiescent
    /\ secrets \in {EmptyStore, SaveToken(EmptyStore, HourToken(1), "u0", 1, EarlierRunIssuedAt)}
    /\ cachedSessions = <<>>
    /\ activeFlows = <<>>
    /\ pendingCallbacks = {}
    /\ events = <<>>
    /\ calls = <<>>
    /\ startupLoad = <<>>
    /\ idp = 1
    /\ nextNonce = 0
    /\ lastEnded = <<>>
    /\ now = ActivationTime
    /\ chatModels = <<>>
    /\ completionModels = <<>>
    /\ embeddingModels = <<>>
    /\ lastFetch = 0
    /\ catCalls = [k \in CatCalls |-> IdleCatCall]
    /\ modelChanges = <<>>
    /\ hostChanges = 0
    /\ catalogFetches = <<>>
    /\ lastResponse = NoAnswer
    /\ endpointCache = {}
    /\ delegated = <<>>

\* the auth variables the catalog model leaves alone
restAuthVars == <<cachedSessions, activeFlows, pendingCallbacks, startupLoad, nextNonce,
                  lastEnded>>

\* calls take the slots in order
NextSlot(k) ==
    /\ catCalls[k].pc = "idle"
    /\ \A j \in 1..(k - 1) : catCalls[j].pc # "idle"

\* a call that starts in slot k while another is in flight overlaps it; so does
\* a session event handled while a call is in flight
StartedCall(k, op, arg, force) ==
    [IdleCatCall EXCEPT !.op = op, !.arg = arg, !.force = force,
                        !.eventsBefore = Len(events),
                        !.overlapped = \E j \in CatCalls \ {k} : CatInFlight(j)]

MarkOverlapped(k, cs) ==
    [j \in CatCalls |-> IF j # k /\ cs[j].pc \notin {"idle", "done"}
                        THEN [cs[j] EXCEPT !.overlapped = TRUE] ELSE cs[j]]

\* _onDidChangeModels.fire(), which the provider forwards to the host
\* (feimaLanguageModelProvider.ts lines 48-51)
Fire(by, event) ==
    /\ modelChanges' = Append(modelChanges, [by |-> by, event |-> event])
    /\ hostChanges' = hostChanges + 1

NoFire == UNCHANGED <<modelChanges, hostChanges>>

\* models.find(m => m.id === modelId)
Find(models, modelId) == \E i \in DOMAIN models : models[i].id = modelId

\* _fetchIfNeeded has returned to the call `me` of slot k, the lists being `lists`
\* and `fetch` telling how its GET went, if it sent one: the rest of the caller runs
FetchIfNeededReturned(k, me, lists, fetch) ==
    LET end(result, outcome) ==
            catCalls' = MarkOverlapped(k, [catCalls EXCEPT ![k] =
                [me EXCEPT !.pc = "done", !.result = result, !.outcome = outcome,
                           !.fetch = fetch, !.answer = NoAnswer, !.startNow = 0,
                           !.accessToken = 0]])
    IN CASE me.op \in {"onAdded", "refreshModels"} ->
              /\ Fire(me.op, me.event)
              /\ end(<<>>, "fired")
              /\ UNCHANGED <<endpointCache, delegated>>
         [] me.op = "getChatModels" ->
              /\ end(lists.chat, "returned")
              /\ NoFire
              /\ UNCHANGED <<endpointCache, delegated>>
         [] me.op = "getCompletionModels" ->
              /\ end(lists.completion, "returned")
              /\ NoFire
              /\ UNCHANGED <<endpointCache, delegated>>
         [] me.op = "getEmbeddingModels" ->
              /\ end(lists.embeddings, "returned")
              /\ NoFire
              /\ UNCHANGED <<endpointCache, delegated>>
         [] me.op = "chatResponse" ->
              /\ NoFire
              /\ IF Find(lists.chat, me.arg)
                 THEN /\ endpointCache' = endpointCache \cup {me.arg}
                      /\ delegated' = Append(delegated, me.arg)
                      /\ end(<<>>, "delegated")
                 ELSE /\ end(<<>>, "Model not found")
                      /\ UNCHANGED <<endpointCache, delegated>>

\* _fetchIfNeeded up to its first await
FetchIfNeeded(k, me) ==
    IF CacheValid(now) /\ ~me.force
    THEN FetchIfNeededReturned(k, me, CurrentLists, "")
    ELSE /\ catCalls' = MarkOverlapped(k, [catCalls EXCEPT ![k] =
                [me EXCEPT !.pc = "isAuthenticated", !.startNow = now]])
         /\ NoFire
         /\ UNCHANGED <<endpointCache, delegated>>

catListVars == <<chatModels, completionModels, embeddingModels, lastFetch>>
catNetVars == <<catalogFetches, lastResponse>>

\* getChatModels(), getCompletionModels(), getEmbeddingModels()
GetModels(k, op) ==
    /\ NextSlot(k)
    /\ FetchIfNeeded(k, StartedCall(k, op, "", FALSE))
    /\ UNCHANGED <<catListVars, catNetVars>>
    /\ UNCHANGED authVars
    /\ UNCHANGED nonCatVars

\* refreshModels()
RefreshModels(k) ==
    /\ NextSlot(k)
    /\ FetchIfNeeded(k, StartedCall(k, "refreshModels", "", TRUE))
    /\ UNCHANGED <<catListVars, catNetVars>>
    /\ UNCHANGED authVars
    /\ UNCHANGED nonCatVars

\* Mutant of ProvideLanguageModelChatResponse: the request is handed to the
\* wrapper whatever the catalog lists.
ProvideLanguageModelChatResponse_NoLookup(k, modelId) ==
    /\ NextSlot(k)
    /\ catCalls' = [catCalls EXCEPT ![k] =
            [StartedCall(k, "chatResponse", modelId, FALSE) EXCEPT
                !.pc = "done", !.outcome = "delegated"]]
    /\ delegated' = Append(delegated, modelId)
    /\ NoFire
    /\ UNCHANGED endpointCache
    /\ UNCHANGED <<catListVars, catNetVars>>
    /\ UNCHANGED authVars
    /\ UNCHANGED nonCatVars

\* provideLanguageModelChatResponse(model, ...): _getEndpoint(model.id), then the wrapper
ProvideLanguageModelChatResponse(k, modelId) ==
    /\ NextSlot(k)
    /\ IF modelId \in endpointCache
       THEN /\ catCalls' = [catCalls EXCEPT ![k] =
                    [StartedCall(k, "chatResponse", modelId, FALSE) EXCEPT
                        !.pc = "done", !.outcome = "delegated"]]
            /\ delegated' = Append(delegated, modelId)
            /\ NoFire
            /\ UNCHANGED endpointCache
       ELSE FetchIfNeeded(k, StartedCall(k, "chatResponse", modelId, FALSE))
    /\ UNCHANGED <<catListVars, catNetVars>>
    /\ UNCHANGED authVars
    /\ UNCHANGED nonCatVars

\* getSessions as getToken() and isAuthenticated() call it (auth service lines
\* 123-134, 150-207), taken in one step: the secret store and the IdP's counter
\* after it, and the access token of the session it resolves with
\* (EmptyAccessToken for []). A token that is due is refreshed; refreshOk tells
\* whether the IdP grants it. A failed refresh clears the store and fires no event.
GetSessionsOfCatalog(refreshOk) ==
    LET stored == LoadStoredToken(secrets) IN
    IF stored.kind # "session"
    THEN [store |-> secrets, idp |-> idp, accessToken |-> EmptyAccessToken]
    ELSE IF /\ ShouldRefreshToken(stored.tokenResponse, stored.issuedAt, now)
            /\ stored.tokenResponse.refresh_token # 0
    THEN IF refreshOk
         THEN [store |-> SaveToken(secrets, HourToken(idp + 1), stored.accountId,
                                   stored.sessionId, now),
               idp |-> idp + 1, accessToken |-> idp + 1]
         ELSE [store |-> ClearStoredToken(secrets), idp |-> idp,
               accessToken |-> EmptyAccessToken]
    ELSE [store |-> secrets, idp |-> idp,
          accessToken |-> stored.tokenResponse.access_token]

\* await this.authService.isAuthenticated() resolves
IsAuthenticatedSettled(k, refreshOk) ==
    LET me == catCalls[k]
        got == GetSessionsOfCatalog(refreshOk)
    IN
    /\ me.pc = "isAuthenticated"
    /\ secrets' = got.store
    /\ idp' = got.idp
    /\ IF got.accessToken = EmptyAccessToken
       THEN FetchIfNeededReturned(k, me, CurrentLists, "")
       ELSE /\ catCalls' = [catCalls EXCEPT ![k].pc = "getToken"]
            /\ NoFire
            /\ UNCHANGED <<endpointCache, delegated>>
    /\ UNCHANGED <<catListVars, catNetVars>>
    /\ UNCHANGED <<events, calls, now>>
    /\ UNCHANGED restAuthVars
    /\ UNCHANGED nonCatVars

\* await this.authService.getToken() resolves; with a token the GET is sent
GetTokenSettled(k, refreshOk) ==
    LET me == catCalls[k]
        got == GetSessionsOfCatalog(refreshOk)
    IN
    /\ me.pc = "getToken"
    /\ secrets' = got.store
    /\ idp' = got.idp
    /\ IF got.accessToken = EmptyAccessToken
       THEN /\ FetchIfNeededReturned(k, me, CurrentLists, "")
            /\ UNCHANGED catalogFetches
       ELSE /\ catCalls' = [catCalls EXCEPT ![k] =
                    [me EXCEPT !.pc = "fetch", !.accessToken = got.accessToken]]
            /\ catalogFetches' = Append(catalogFetches,
                    [call |-> k, bearer |-> got.accessToken])
            /\ NoFire
            /\ UNCHANGED <<endpointCache, delegated>>
    /\ UNCHANGED <<catListVars, lastResponse>>
    /\ UNCHANGED <<events, calls, now>>
    /\ UNCHANGED restAuthVars
    /\ UNCHANGED nonCatVars

\* await fetch(url, ...) settles: it throws (status 0), or resolves with a response
CatalogFetchSettled(k, answer) ==
    LET me == catCalls[k] IN
    /\ me.pc = "fetch"
    /\ lastResponse' = IF answer.status = 0 THEN lastResponse ELSE answer
    /\ IF answer.status # 200
       THEN FetchIfNeededReturned(k, me, CurrentLists,
                                  IF answer.status = 0 THEN "threw" ELSE "not ok")
       ELSE /\ catCalls' = [catCalls EXCEPT ![k] = [me EXCEPT !.pc = "json", !.answer = answer]]
            /\ NoFire
            /\ UNCHANGED <<endpointCache, delegated>>
    /\ UNCHANGED <<catListVars, catalogFetches>>
    /\ UNCHANGED authVars
    /\ UNCHANGED nonCatVars

\* the timer of lines 217-218 fires while fetch is pending: controller.abort()
\* makes fetch throw. The timer is cleared in the finally of line 237, as soon as
\* fetch has settled, so it exists only while the call is at "fetch".
FetchTimedOut(k) == CatalogFetchSettled(k, NoAnswer)

\* Mutant of Categorized: the response is not taken over, the lists stay.
Categorized_KeepsLists(data) == CurrentLists

\* lines 249-263: the lists are emptied, then filled from data.data
Categorized(data) == Categorize(data, EmptyLists)

\* await response.json() settles; the lists are rebuilt from data.data
JsonSettled(k) ==
    LET me == catCalls[k] IN
    /\ me.pc = "json"
    /\ IF me.answer.json # "data"
       THEN /\ FetchIfNeededReturned(k, me, CurrentLists,
                        IF me.answer.json = "rejects" THEN "json rejected" ELSE "no data")
            /\ UNCHANGED catListVars
       ELSE LET lists == Categorized(me.answer.data) IN
            /\ chatModels' = lists.chat
            /\ completionModels' = lists.completion
            /\ embeddingModels' = lists.embeddings
            /\ lastFetch' = IF lists.threw THEN lastFetch ELSE me.startNow
            /\ FetchIfNeededReturned(k, me, lists, IF lists.threw THEN "entry threw" ELSE "ok")
    /\ UNCHANGED catNetVars
    /\ UNCHANGED authVars
    /\ UNCHANGED nonCatVars

\* createSession of the host's sign-in has written the new session to the store
SignInStored ==
    /\ calls = <<>>
    /\ LoadStoredToken(secrets).kind # "session"
    /\ Len(events) < MaxEvents
    /\ secrets' = SaveToken(secrets, HourToken(idp + 1), "u0", idp + 1, now)
    /\ idp' = idp + 1
    /\ calls' = PendingAuth("createSession", SessionOf(LoadStoredToken(secrets')))
    /\ UNCHANGED <<events, now>>
    /\ UNCHANGED restAuthVars
    /\ UNCHANGED catVars
    /\ UNCHANGED nonCatVars

\* Mutant of ClearCache: the lists stay.
ClearCache_KeepsLists == UNCHANGED <<chatModels, completionModels, embeddingModels, lastFetch>>

\* clearCache()
ClearCache ==
    /\ chatModels' = <<>>
    /\ completionModels' = <<>>
    /\ embeddingModels' = <<>>
    /\ lastFetch' = 0

\* createSession fires its event; the catalog's handler (lines 103-127) clears the
\* cache and, the event having added sessions, starts _fetchIfNeeded(), whose
\* cacheValid is false on the lists just emptied
SessionAdded(k) ==
    /\ calls # <<>>
    /\ calls[1].op = "createSession"
    /\ NextSlot(k)
    /\ events' = Append(events, AddedEvent(calls[1].session))
    /\ calls' = <<>>
    /\ ClearCache
    /\ catCalls' = MarkOverlapped(k, [catCalls EXCEPT ![k] =
            [StartedCall(k, "onAdded", "", FALSE) EXCEPT
                !.event = Len(events) + 1, !.pc = "isAuthenticated", !.startNow = now]])
    /\ NoFire
    /\ UNCHANGED <<endpointCache, delegated, catNetVars>>
    /\ UNCHANGED <<secrets, idp, now>>
    /\ UNCHANGED restAuthVars
    /\ UNCHANGED nonCatVars

\* removeSession has deleted the stored session
SignOutStored ==
    /\ calls = <<>>
    /\ LoadStoredToken(secrets).kind = "session"
    /\ Len(events) < MaxEvents
    /\ secrets' = ClearStoredToken(secrets)
    /\ calls' = PendingAuth("removeSession", SessionOf(LoadStoredToken(secrets)))
    /\ UNCHANGED <<events, idp, now>>
    /\ UNCHANGED restAuthVars
    /\ UNCHANGED catVars
    /\ UNCHANGED nonCatVars

\* Mutant of SessionRemoved: the handler clears the cache without notifying.
SessionRemoved_Silent ==
    /\ calls # <<>>
    /\ calls[1].op = "removeSession"
    /\ events' = Append(events, RemovedEvent(calls[1].session))
    /\ calls' = <<>>
    /\ ClearCache
    /\ NoFire
    /\ catCalls' = MarkOverlapped(0, catCalls)
    /\ UNCHANGED <<endpointCache, delegated, catNetVars>>
    /\ UNCHANGED <<secrets, idp, now>>
    /\ UNCHANGED restAuthVars
    /\ UNCHANGED nonCatVars

\* removeSession fires its event; the catalog's handler clears the cache and fires
SessionRemoved ==
    /\ calls # <<>>
    /\ calls[1].op = "removeSession"
    /\ events' = Append(events, RemovedEvent(calls[1].session))
    /\ calls' = <<>>
    /\ ClearCache
    /\ Fire("onRemoved", Len(events) + 1)
    /\ catCalls' = MarkOverlapped(0, catCalls)
    /\ UNCHANGED <<endpointCache, delegated, catNetVars>>
    /\ UNCHANGED <<secrets, idp, now>>
    /\ UNCHANGED restAuthVars
    /\ UNCHANGED nonCatVars

\* time passes: longer than the cache lives
CatalogTick ==
    /\ now < ActivationTime + MaxCatTicks * TickMs
    /\ now' = now + TickMs
    /\ UNCHANGED <<secrets, events, calls, idp>>
    /\ UNCHANGED restAuthVars
    /\ UNCHANGED catVars
    /\ UNCHANGED nonCatVars

CatalogNext ==
    \/ \E k \in CatCalls :
          \E op \in {"getChatModels", "getCompletionModels", "getEmbeddingModels"} :
             GetModels(k, op)
    \/ \E k \in CatCalls : RefreshModels(k)
    \/ \E k \in CatCalls, modelId \in ModelIds : ProvideLanguageModelChatResponse(k, modelId)
    \/ \E k \in CatCalls, refreshOk \in BOOLEAN : IsAuthenticatedSettled(k, refreshOk)
    \/ \E k \in CatCalls, refreshOk \in BOOLEAN : GetTokenSettled(k, refreshOk)
    \/ \E k \in CatCalls, answer \in CatalogAnswers : CatalogFetchSettled(k, answer)
    \/ \E k \in CatCalls : FetchTimedOut(k)
    \/ \E k \in CatCalls : JsonSettled(k)
    \/ SignInStored
    \/ \E k \in CatCalls : SessionAdded(k)
    \/ SignOutStored
    \/ SessionRemoved
    \/ CatalogTick

CatalogSpec == CatalogInit /\ [][CatalogNext]_vars

\* The catalog with one call at a time, for what a call can wait for. The
\* extension's own continuations and its abort timer are bound to run; nothing
\* obliges the gateway to answer the GET or to deliver the body.
TimeoutNext ==
    \/ \E op \in {"getChatModels", "getCompletionModels", "getEmbeddingModels"} :
          GetModels(1, op)
    \/ RefreshModels(1)
    \/ \E refreshOk \in BOOLEAN : IsAuthenticatedSettled(1, refreshOk)
    \/ \E refreshOk \in BOOLEAN : GetTokenSettled(1, refreshOk)
    \/ \E answer \in CatalogAnswers : CatalogFetchSettled(1, answer)
    \/ FetchTimedOut(1)
    \/ JsonSettled(1)
    \/ SignInStored
    \/ SessionAdded(1)
    \/ CatalogTick

TimeoutSpec ==
    /\ CatalogInit
    /\ [][TimeoutNext]_vars
    /\ WF_vars(\E refreshOk \in BOOLEAN : IsAuthenticatedSettled(1, refreshOk))
    /\ WF_vars(\E refreshOk \in BOOLEAN : GetTokenSettled(1, refreshOk))
    /\ WF_vars(FetchTimedOut(1))

-----------------------------------------------------------------------------
(* Further properties of the chat pipeline *)

\* C30: within one request a tool-call index is handed to the callback at most
\* once: a call given to the callback at finish_reason is not given to it again
\* at [DONE] or at stream end.
C30_ToolCallIndexHandedOnce ==
    \A i, j \in DOMAIN handedToolCalls :
       i < j => handedToolCalls[i].indexes \cap handedToolCalls[j].indexes = {}

\* the callback has thrown on a tool call's arguments
CallbackThrew == \E i \in DOMAIN handedToolCalls : handedToolCalls[i].threw

\* C31: once the callback has failed on a tool call's arguments nothing more is
\* reported to the host, the failed call itself included, and when the parser has
\* ended the request has failed.
C31_InvalidArgumentsStopTheStream ==
    /\ [](CallbackThrew /\ ssePc = "released" => chatResult = "error")
    /\ [][CallbackThrew => reported' = reported]_vars

\* the fragments of the data lines parsed so far, in arrival order
RECURSIVE FragmentsOf(_)
FragmentsOf(lines) ==
    IF lines = <<>> THEN <<>>
    ELSE (IF Head(lines).kind = "data" THEN Head(lines).tool_calls ELSE <<>>)
         \o FragmentsOf(Tail(lines))

FragmentsSeen == FragmentsOf(SubSeq(stream, 1, linesDone))

\* the first non-empty value of a field among the fragments of one index
RECURSIVE FirstCarried(_, _, _)
FirstCarried(frags, i, field) ==
    IF frags = <<>> THEN ""
    ELSE IF Head(frags).index = i /\ Head(frags)[field] # "" THEN Head(frags)[field]
    ELSE FirstCarried(Tail(frags), i, field)

\* the argument strings of the fragments of one index, concatenated in order
RECURSIVE ArgumentsOf(_, _)
ArgumentsOf(frags, i) ==
    IF frags = <<>> THEN <<>>
    ELSE (IF Head(frags).index = i THEN Head(frags).arguments ELSE <<>>)
         \o ArgumentsOf(Tail(frags), i)

EntriesFor(i) == { k \in DOMAIN toolCallsMap : toolCallsMap[k].index = i }

\* C32: every tool-call index seen so far has exactly one accumulator entry;
\* its id and name are those of the first fragment of the index that carries
\* them, its arguments are the argument strings of all fragments of the index
\* in arrival order, and only entries with both id and name are handed on.
C32_AccumulatorFollowsFragments ==
    /\ \A n \in DOMAIN FragmentsSeen :
          LET i == FragmentsSeen[n].index IN
          /\ Cardinality(EntriesFor(i)) = 1
          /\ \A k \in EntriesFor(i) :
                /\ toolCallsMap[k].id = FirstCarried(FragmentsSeen, i, "id")
                /\ toolCallsMap[k].name = FirstCarried(FragmentsSeen, i, "name")
                /\ toolCallsMap[k].arguments = ArgumentsOf(FragmentsSeen, i)
    /\ \A h \in DOMAIN handedToolCalls : \A i \in handedToolCalls[h].indexes :
          \A k \in EntriesFor(i) : toolCallsMap[k].id # "" /\ toolCallsMap[k].name # ""

\* a data: [DONE] line has been processed
DoneSeen == \E n \in 1..linesDone : stream[n].kind = "done"

\* C33: [DONE] ends the stream: once a [DONE] line has been processed nothing
\* of what follows it in the response is reported to the host.
C33_NothingReportedAfterDone == [][DoneSeen => reported' = reported]_vars

\* C34 (the HTTP call): when the token is tripped while the POST is in flight
\* the call is aborted, so the fetch settles as a failure and never delivers a
\* response to the request.
C34_CancellationAbortsTheCall ==
    [][isCancellationRequested /\ reqPc = "fetch" =>
          reqPc' = "fetch" \/ response'.status = 0]_vars

\* C34 (the reader): after the loop condition has seen the tripped token no
\* chunk is read, the reader lock is released whenever the parser has ended,
\* and what was reported stays reported.
C34_ReaderStopsAndReleases ==
    /\ [][isCancellationRequested /\ ssePc = "read" => ssePc' \in {"read", "flush"}]_vars
    /\ [](chatResult # "pending" => ssePc = "released")
    /\ [][Len(reported') >= Len(reported)
            /\ SubSeq(reported', 1, Len(reported)) = reported]_vars

\* the read loop has ended on the tripped token, with lines of the body unread
CancellationObserved ==
    /\ isCancellationRequested
    /\ ssePc = "flush"
    /\ linesDone < Avail

\* C35: once the parser has observed the tripped token nothing more is
\* reported to the host for the request.
C35_NothingReportedAfterCancellation ==
    [][CancellationObserved => reported' = reported]_vars

-----------------------------------------------------------------------------
(* Further properties of the authentication service *)

\* since call c began a removed event was fired, and no added event after it
RemovedSince(c) ==
    \E k \in (calls[c].eventsBefore + 1)..Len(events) :
       /\ events[k].kind = "removed"
       /\ \A j \in (k + 1)..Len(events) : events[j].kind # "added"

\* C28: once removeSession has cleared the store and fired its removed event, a
\* getSessions call that was already in flight then writes no token back: its
\* later steps leave the secret store as it is and put no session in the cache.
C28_RemovedStaysRemoved ==
    [][ \A c \in Calls :
          ( /\ calls[c].op \in {"getSessions", "getToken"}
            /\ InFlight(c)
            /\ RemovedSince(c)
            /\ calls'[c] # calls[c] )
          => /\ secrets' = secrets
             /\ cachedSessions' = <<>> ]_vars

\* no call of the service is in flight and the startup load has finished
NothingInFlight ==
    /\ startupLoad.pc = "done"
    /\ \A c \in Calls : ~InFlight(c)

\* the sessions list that the stored blob stands for
ProjectionOfStore(store) ==
    IF LoadStoredToken(store).kind = "session"
       THEN <<SessionOf(LoadStoredToken(store))>>
       ELSE <<>>

\* C29: whenever no authentication operation is in flight, the cached-session slot
\* holds at most one session and equals the projection of the StoredSession in the
\* secret store (empty when the store holds none), whatever the interleaving of
\* createSession, getSessions, removeSession and the initial load was.
C29_CacheMirrorsStore ==
    NothingInFlight =>
        /\ Len(cachedSessions) <= 1
        /\ cachedSessions = ProjectionOfStore(secrets)

\* the errors createSession throws
CreateSessionFailures ==
    {"CannotOpenBrowser", "AuthCallbackTimedOut", "AuthServerReturnedError",
     "MalformedCallback", "OAuthFlowStateLost", "TokenExchangeFailed"}

\* createSession call c has ended without a session
CreateSessionFailed(c) ==
    /\ calls[c].op = "createSession"
    /\ calls[c].pc = "done"
    /\ calls[c].outcome # "created"

\* C37: a createSession call that fails throws one of its errors to the caller,
\* and none of its steps has written the secret store, set the cached-session
\* slot or fired a session-change event.
C37_FailedCreateSessionChangesNothing ==
    /\ [](\A c \in Calls : CreateSessionFailed(c) =>
             /\ calls[c].outcome \in CreateSessionFailures
             /\ calls[c].result = NoSessions
             /\ calls[c].saved = NoStored)
    /\ [][\A c \in Calls :
            ( /\ calls'[c].op = "createSession"
              /\ calls'[c] # calls[c]
              /\ calls'[c].saved = NoStored )
            => /\ secrets' = secrets
               /\ cachedSessions' = cachedSessions
               /\ events' = events]_vars

\* a createSession call has failed at the token exchange after another one
\* timed out, with a session in the store and in the cache
C37_Witness ==
    /\ \E c \in Calls : CreateSessionFailed(c) /\ calls[c].outcome = "TokenExchangeFailed"
    /\ \E c \in Calls : CreateSessionFailed(c) /\ calls[c].outcome = "AuthCallbackTimedOut"
    /\ LoadStoredToken(secrets).kind = "session"
    /\ cachedSessions # <<>>

\* the pending callback of call c, removed from the router in this step
SettledEntries(c) ==
    { e \in pendingCallbacks \ pendingCallbacks' :
         e.owner = c /\ e.nonce = calls[c].nonce }

\* C38: a callback promise is settled only by a redirect that carries the nonce
\* of a callback pending at that moment, or by that callback's due timer, and
\* only once; a redirect without state or with a state that matches no pending
\* callback therefore settles nothing.  Settling a promise leaves the active
\* flows, the secret store and the cached session as they are, and a token
\* exchange is started only for a callback resolved by its own redirect.
C38_UnmatchedRedirectDropped ==
    /\ [][\A c \in Calls : calls'[c].promise # calls[c].promise =>
            /\ calls[c].promise.state = "pending"
            /\ SettledEntries(c) # {}
            /\ \/ calls'[c].promise.uriState = calls[c].nonce
               \/ /\ calls'[c].promise = RejectedPromise("AuthCallbackTimedOut", 0)
                  /\ \A e \in SettledEntries(c) : now >= e.deadline
            /\ calls'[c].pc = calls[c].pc
            /\ calls'[c].exchange = calls[c].exchange
            /\ activeFlows' = activeFlows
            /\ secrets' = secrets
            /\ cachedSessions' = cachedSessions]_vars
    /\ [](\A c \in Calls : calls[c].exchange # NoExchange =>
             /\ calls[c].promise.state = "resolved"
             /\ calls[c].promise.uriState = calls[c].nonce
             /\ calls[c].exchange.code = calls[c].promise.code)

\* one callback was resolved by its redirect, another one timed out, and none is
\* pending any more: every redirect that arrives now is dropped
C38_Witness ==
    /\ pendingCallbacks = {}
    /\ \E c, d \in Calls :
          /\ calls[c].promise.state = "resolved"
          /\ calls[d].promise = RejectedPromise("AuthCallbackTimedOut", 0)
          /\ calls[c].nonce # 0 /\ calls[d].nonce # 0

-----------------------------------------------------------------------------
(* Further properties of makeChatRequest and the wrapper *)

\* the gateway answered the POST with a status outside 200..299
NonOkAnswer ==
    /\ response # <<>>
    /\ response.status # 0
    /\ ~Ok(response)

\* C21: when the gateway answers the chat POST with a non-2xx status, the endpoint
\* returns a result that is not success (blocked for a readable 403), the wrapper
\* ends with an exception carrying that result's reason, and no TextPart or
\* ToolCallPart was reported to the host for the request.
C21_NonOkStatusBecomesException ==
    NonOkAnswer =>
        /\ reqPc = "done"
        /\ reqOutcome.kind = "returned"
        /\ reqOutcome.type \in {"blocked", "quotaExceeded", "rateLimited", "error"}
        /\ (response.status = 403 /\ response.text) => reqOutcome.type = "blocked"
        /\ reported = <<>>
        /\ hostOutcome \in {<<>>, Thrown(reqOutcome.reason)}

C21_Witness ==
    /\ NonOkAnswer
    /\ response.status = 403
    /\ response.body
    /\ reqOutcome = Returned("blocked", "error.extensionBlocked")
    /\ hostOutcome = Thrown("error.extensionBlocked")
    /\ reported = <<>>

-----------------------------------------------------------------------------
(* Properties of the model catalog and the provider *)

\* the model-change events fired for session event number e
ChangesFor(e) == {i \in DOMAIN modelChanges : modelChanges[i].event = e}

\* the handler's _fetchIfNeeded() for the added event number e is still running
AddFetchRunning(e) ==
    \E k \in CatCalls : catCalls[k].op = "onAdded" /\ catCalls[k].event = e /\ CatInFlight(k)

\* a session event is being fired in this step
SessionEventFires == Len(events') = Len(events) + 1

\* C22: every session-change event makes the catalog clear its lists and then fire
\* exactly one model-change event: for an added event once the _fetchIfNeeded()
\* the handler started has returned and not before, for a removed event in the
\* same step and without a GET; the host gets one change event per model-change
\* event.
C22_OneModelChangePerSessionEvent ==
    /\ [](/\ hostChanges = Len(modelChanges)
          /\ \A e \in DOMAIN events :
                /\ Cardinality(ChangesFor(e)) = IF AddFetchRunning(e) THEN 0 ELSE 1
                /\ \A i \in ChangesFor(e) :
                      modelChanges[i].by = IF events[e].kind = "added" THEN "onAdded"
                                           ELSE "onRemoved")
    /\ [][SessionEventFires =>
            /\ chatModels' = <<>> /\ completionModels' = <<>> /\ embeddingModels' = <<>>
            /\ lastFetch' = 0
            /\ events'[Len(events')].kind = "removed" =>
                  /\ catalogFetches' = catalogFetches
                  /\ \A k \in CatCalls : catCalls'[k].pc = catCalls[k].pc]_vars

\* a removal and then a sign-in, whose fetch has filled the lists, have both been
\* announced to the host
C22_Witness ==
    /\ Len(events) = 2
    /\ events[1].kind = "removed"
    /\ events[2].kind = "added"
    /\ \E k \in CatCalls :
          /\ catCalls[k].op = "onAdded" /\ catCalls[k].pc = "done"
          /\ catCalls[k].fetch = "ok"
    /\ chatModels # <<>>
    /\ hostChanges = 2

\* call k ran with no other call and no session event during it
RanAlone(k) == catCalls[k].pc = "done" /\ ~catCalls[k].overlapped

\* the last session event is the removal of the session, nothing has been stored
\* since, and every catalog call so far ran alone
RemovedAndSettled ==
    /\ events # <<>>
    /\ events[Len(events)].kind = "removed"
    /\ calls = <<>>
    /\ \A j \in CatCalls : catCalls[j].pc # "idle" => RanAlone(j)

\* C23: a getChatModels() called after removeSession has completed returns [],
\* sends no GET and leaves the lists empty, as long as no session has been
\* stored since the removal.
C23_EmptyAfterRemoval ==
    \A k \in CatCalls :
        /\ RemovedAndSettled
        /\ catCalls[k].op = "getChatModels"
        /\ catCalls[k].eventsBefore = Len(events)
        => /\ catCalls[k].result = <<>>
           /\ catCalls[k].fetch = ""
           /\ \A i \in DOMAIN catalogFetches : catalogFetches[i].call # k
           /\ chatModels = <<>>

\* the catalog was filled by a first getChatModels(), the session was removed, and
\* a second getChatModels() has returned
C23_Witness ==
    /\ RemovedAndSettled
    /\ Len(events) = 1
    /\ catCalls[1].op = "getChatModels" /\ catCalls[1].fetch = "ok"
    /\ catCalls[1].result # <<>>
    /\ catCalls[2].op = "getChatModels" /\ catCalls[2].eventsBefore = 1

\* call k returns in this step
Returns(k) == catCalls[k].pc \notin {"idle", "done"} /\ catCalls'[k].pc = "done"

\* how a GET of _fetchIfNeeded can fail
FetchFailures == {"threw", "not ok", "json rejected", "no data", "entry threw"}

\* C24: a call whose catalog fetch failed (the fetch threw or was aborted, the
\* status was not 2xx, or the response could not be processed) returns normally
\* and its fetch left the three lists and nothing else but the call changed.
C24_FailedFetchKeepsLists ==
    [][\A k \in CatCalls :
          Returns(k) /\ catCalls'[k].fetch \in FetchFailures
          => /\ chatModels' = chatModels
             /\ completionModels' = completionModels
             /\ embeddingModels' = embeddingModels
             /\ catCalls'[k].outcome \in {"returned", "fired", "Model not found", "delegated"}]_vars

\* the entries of data.data whose capabilities.type is `type`, in order
OfType(data, type) ==
    LET Is(model) == model.type = type IN SelectSeq(data, Is)

\* every descriptor of data.data in the list of its type
CompleteCategorisation(data) ==
    Lists(OfType(data, "chat"), OfType(data, "completion"), OfType(data, "embeddings"))

\* C25: the three lists only ever change to empty lists (clearCache) or to the
\* complete categorisation of the response a fetch has just received; otherwise
\* they stay what they were.
C25_ListsReplacedAtomically ==
    [][\/ <<chatModels, completionModels, embeddingModels>>' =
                <<chatModels, completionModels, embeddingModels>>
       \/ <<chatModels, completionModels, embeddingModels>>' = << <<>>, <<>>, <<>> >>
       \/ \E k \in CatCalls :
             /\ catCalls[k].pc = "json"
             /\ catCalls[k].answer.json = "data"
             /\ Lists(chatModels', completionModels', embeddingModels')
                    = CompleteCategorisation(catCalls[k].answer.data)]_vars

\* a response the catalog can take over: 2xx, JSON with a data array all of whose
\* entries carry capabilities
Processable(answer) ==
    /\ answer.status = 200
    /\ answer.json = "data"
    /\ \A i \in DOMAIN answer.data : answer.data[i] # MalformedEntry

\* call k directly follows a refreshModels() that has completed and whose GET
\* brought a response the catalog took over: both ran alone, k is the next call,
\* and no session was stored or removed since the refresh began
FollowsRefresh(k) ==
    /\ k > 1
    /\ catCalls[k - 1].op = "refreshModels"
    /\ catCalls[k - 1].fetch = "ok"
    /\ RanAlone(k - 1)
    /\ ~catCalls[k].overlapped
    /\ catCalls[k - 1].eventsBefore = Len(events)
    /\ calls = <<>>

ChatInvocationEnds(k) ==
    /\ catCalls[k].pc # "done"
    /\ catCalls'[k].pc = "done"
    /\ catCalls'[k].op = "chatResponse"

\* the invocation of call k fails with "Model not found", nothing is handed to the
\* wrapper (which is what calls makeChatRequest), no endpoint is created
FailsModelNotFound(k) ==
    /\ catCalls'[k].outcome = "Model not found"
    /\ delegated' = delegated
    /\ endpointCache' = endpointCache

\* C27 (as stated): a chat invocation for a model id that the catalog does not
\* list fails with "Model not found" and hands nothing to the wrapper.
C27_UnknownModelFails ==
    [][\A k \in CatCalls :
          ChatInvocationEnds(k) /\ ~Find(chatModels', catCalls'[k].arg)
          => FailsModelNotFound(k)]_vars

\* C27 (amended): a chat invocation for a model id that has no cached endpoint
\* and that the catalog does not list fails with "Model not found" and hands
\* nothing to the wrapper.
C27_UnknownUncachedModelFails ==
    [][\A k \in CatCalls :
          /\ ChatInvocationEnds(k)
          /\ catCalls'[k].arg \notin endpointCache
          /\ ~Find(chatModels', catCalls'[k].arg)
          => FailsModelNotFound(k)]_vars

\* the catalog lists a chat model, and an invocation for another id has failed
\* without anything handed to the wrapper
C27_Witness ==
    \E k \in CatCalls :
        /\ catCalls[k].op = "chatResponse" /\ catCalls[k].pc = "done"
        /\ catCalls[k].outcome = "Model not found"
        /\ chatModels # <<>>
        /\ ~Find(chatModels, catCalls[k].arg)
        /\ catCalls[k].arg \notin endpointCache
        /\ delegated = <<>>

\* the getters of the catalog
Getters == {"getChatModels", "getCompletionModels", "getEmbeddingModels"}

\* a getter is called in slot k in this step
GetterCalled(k) == catCalls[k].pc = "idle" /\ catCalls'[k].op \in Getters

\* C40: a getter called while one of the three lists holds a model and less than
\* five minutes have passed since the last successful fetch returns from the
\* cache: the call ends in the same step and sends no GET.
C40_FreshCacheNoRequest ==
    [][\A k \in CatCalls :
          /\ GetterCalled(k)
          /\ chatModels # <<>> \/ completionModels # <<>> \/ embeddingModels # <<>>
          /\ now - lastFetch < CacheDuration
          => /\ catCalls'[k].pc = "done"
             /\ catalogFetches' = catalogFetches]_vars

\* no catalog call is in flight, and no sign-in or sign-out of the host is
\* between its write to the secret store and its event
CatalogAtRest ==
    /\ \A k \in CatCalls : ~CatInFlight(k)
    /\ calls = <<>>

\* C36: whenever the secret store holds no session and nothing is in flight, the
\* three lists are empty, so that the getters, which return copies of them,
\* return [].
C36_NoSessionNoModels ==
    LoadStoredToken(secrets).kind # "session" /\ CatalogAtRest
    => chatModels = <<>> /\ completionModels = <<>> /\ embeddingModels = <<>>

\* C39: a call that has sent its GET to the models endpoint returns, whatever
\* the gateway does: the getter resolves, and the handler of an added session
\* fires its model-change event.
C39_FetchAlwaysTerminates ==
    catCalls[1].pc = "fetch" ~> catCalls[1].pc = "done"

====
